---- MODULE Spec2Model ----
(***************************************************************************)
(* Model of the tunnel tuning core of shalinda-j/Tunneling:                *)
(*   models/network_optimization.py  NetworkOptimizer (queueing model,     *)
(*                                   grid search)                          *)
(*   models/reinforcement_learning.py ExperienceBuffer, RoutingAgent       *)
(*                                                                         *)
(* Python floats are modelled as fixed-point numbers: the integer n stands *)
(* for n / FX.  Every product and quotient is rounded to the nearest       *)
(* multiple of that quantum: finite precision, as the floats have.        *)
(* Packet rates (packets per second) are the one quantity held with the    *)
(* coarser quantum 1 / RATE, because 1 Gbps of 1400-byte packets is about  *)
(* 9 * 10^4 packets per second.                                            *)
(***************************************************************************)
EXTENDS Integers, Sequences, FiniteSets, TLC

VARIABLES
    params,             \* NetworkOptimizer.params
    evaluated_configs,  \* NetworkOptimizer.evaluated_configs
    buffer,             \* ExperienceBuffer.buffer
    max_size,           \* ExperienceBuffer.max_size
    added,              \* history: the experiences passed to add, oldest first
    epsilon,            \* RoutingAgent.epsilon
    epsilon_decay,      \* RoutingAgent.epsilon_decay
    epsilon_min,        \* RoutingAgent.epsilon_min
    self_batch_size,    \* RoutingAgent.batch_size
    model,              \* RoutingAgent.model: the online estimator's parameters
    target_model,       \* RoutingAgent.target_model: the target estimator's parameters
    loss_history,       \* RoutingAgent.loss_history
    reward_history,     \* RoutingAgent.reward_history
    q_value_history,    \* RoutingAgent.q_value_history
    fit_call,           \* history: the (states, targets) of the last model.fit call
    current_params,     \* the parameter dict a driver hands to apply_action
    ret,                \* what the last call returned, or the exception it raised
    disk,               \* RoutingAgent.model_dir: the files save() has written there
    boots,              \* history: how many agents have been constructed on model_dir
    current_metrics,    \* RoutingOptimizer.current_metrics
    current_state,      \* RoutingOptimizer.current_state
    last_action,        \* RoutingOptimizer.last_action
    wg_config,          \* RoutingOptimizer.wg_config
    optimization_history, \* RoutingOptimizer.optimization_history
    settings,           \* WireGuardManager.settings, None without a manager
    cycles,             \* each caller's position in optimize_routing, and its locals
    training,           \* train_on_simulated_data: its position and its locals
    monitoring,         \* TunnelMonitor.monitoring
    monitor_thread,     \* TunnelMonitor.monitor_thread: the thread last started, 0 for None
    threads,            \* the monitoring threads started so far, each with its position
    caller              \* the position of the thread that calls start and stop

optimizerVars == <<params, evaluated_configs>>

bufferVars == <<buffer, max_size, added>>

agentVars == <<epsilon, epsilon_decay, epsilon_min, self_batch_size, model, target_model,
               loss_history, reward_history, q_value_history, fit_call>>

persistVars == <<disk, boots>>

routingVars == <<current_metrics, current_state, last_action, wg_config,
                 optimization_history, settings, cycles>>

trainingVars == <<training>>

monitorVars == <<monitoring, monitor_thread, threads, caller>>

extVars == <<persistVars, routingVars, trainingVars, monitorVars>>

vars == <<params, evaluated_configs, buffer, max_size, added, epsilon, epsilon_decay,
          epsilon_min, self_batch_size, model, target_model, loss_history,
          reward_history, q_value_history, fit_call, current_params, ret, disk, boots,
          current_metrics, current_state, last_action, wg_config, optimization_history,
          settings, cycles, training, monitoring, monitor_thread, threads, caller>>

-----------------------------------------------------------------------------
(* Fixed-point arithmetic *)

FX == 1000 * 1000

RATE == FX \div 1000

FXROOT == FX \div 1000

\* TLC passes the arguments of an operator by name and the arguments of a
\* function by value.  The arithmetic is therefore written as functions: an
\* operand is evaluated once, however often the body reads it.
Abs[x \in Int] == IF x < 0 THEN -x ELSE x

Sign[x \in Int] == IF x < 0 THEN -1 ELSE 1

Min[a \in Int, b \in Int] == IF a < b THEN a ELSE b

Max[a \in Int, b \in Int] == IF a > b THEN a ELSE b

\* The product of two fixed-point numbers, a * b / FX rounded to the nearest
\* quantum (halves away from zero).  The operands are split at FXROOT so that
\* no partial product exceeds the integer width.
Mul[a \in Int, b \in Int] ==
    LET x == Abs[a]
        y == Abs[b]
        x1 == x \div FXROOT
        x0 == x % FXROOT
        y1 == y \div FXROOT
        y0 == y % FXROOT
        t1 == x1 * y0
        t2 == x0 * y1
        rem == ((t1 % FXROOT) + (t2 % FXROOT)) * FXROOT + x0 * y0
        q == x1 * y1 + (t1 \div FXROOT) + (t2 \div FXROOT) + (rem \div FX)
        r == rem % FX
    IN  Sign[a] * Sign[b] * (IF 2 * r >= FX THEN q + 1 ELSE q)

\* n more decimal digits of the quotient q, remainder r, of a division by z
LongDiv[q \in Nat, r \in Nat, z \in Nat, n \in Nat] ==
    IF n = 0 THEN <<q, r>>
    ELSE LongDiv[q * 10 + ((r * 10) \div z), (r * 10) % z, z, n - 1]

\* The quotient of two fixed-point numbers (or of two integers, as a
\* fixed-point number): a * FX / c rounded to the nearest quantum; c /= 0.
\* A divisor that is a whole number, c = d * FX, divides as a / d.
Div[a \in Int, c \in Int] ==
    LET x == Abs[a]
        z == Abs[c]
        d == IF z % FX = 0 THEN z \div FX ELSE z
        qr == IF z % FX = 0 THEN <<x \div d, x % d>>
              ELSE LongDiv[x \div z, x % z, z, 6]
    IN  Sign[a] * Sign[c] * (IF qr[2] >= d - qr[2] THEN qr[1] + 1 ELSE qr[1])

\* x ** n for a fixed-point x and an integer n >= 0, by repeated squaring.
PowInt[x \in Int, n \in Nat] ==
    IF n = 0 THEN FX
    ELSE IF n % 2 = 1 THEN Mul[x, PowInt[Mul[x, x], n \div 2]]
    ELSE PowInt[Mul[x, x], n \div 2]

\* x ** e for fixed-point x and e; the inputs of the model keep e integral.
Pow[x \in Int, e \in Nat] == PowInt[x, e \div FX]

-----------------------------------------------------------------------------
(* models/network_optimization.py *)

None == [none |-> TRUE]

ZeroDivisionError == [raised |-> TRUE, error |-> "ZeroDivisionError"]

Raised(r) == "raised" \in DOMAIN r /\ r.raised

\* @dataclass NetworkParameters
NetworkParameters(b_local, b_ec2, l_propagation, mtu, buffer_size, packet_size, congestion_level) ==
    [b_local |-> b_local, b_ec2 |-> b_ec2, l_propagation |-> l_propagation,
     mtu |-> mtu, buffer_size |-> buffer_size, packet_size |-> packet_size,
     congestion_level |-> congestion_level]

\* @dataclass NetworkMetrics
NetworkMetrics(effective_throughput, total_latency, packet_loss, queue_length, utilization, score) ==
    [raised |-> FALSE,
     effective_throughput |-> effective_throughput, total_latency |-> total_latency,
     packet_loss |-> packet_loss, queue_length |-> queue_length,
     utilization |-> utilization, score |-> score]

\* self.weights
weights == [throughput |-> 500000, latency |-> 300000, loss |-> 200000]

\* (b * 1e9) / packet_size_bits: b Gbps are b * 1000 bits per second in
\* fixed point, so the rate is b * 1000 * RATE / packet_size_bits quanta.
PacketRate(b, packet_size_bits) == Div[b * ((1000 * RATE) \div FX), packet_size_bits]

\* Mutant of StableUtilization: the saturation test written "> 1.0".
StableUtilizationStrict(utilization) ==
    IF utilization > FX THEN 990000 ELSE utilization

\* if utilization >= 1.0: utilization = 0.99
StableUtilization(utilization) ==
    IF utilization >= FX THEN 990000 ELSE utilization

\* Mutant of BufferLoss: the utilization is not raised to the buffer size.
BufferLossLinear(utilization, effective_buffer) ==
    IF effective_buffer <= 0 THEN FX
    ELSE IF utilization < FX
         THEN Mul[utilization, FX - utilization]
         ELSE 500000

\* the buffer overflow probability of lines 129-138
BufferLoss(utilization, effective_buffer) ==
    IF effective_buffer <= 0 THEN FX
    ELSE IF utilization < FX
         THEN Mul[Pow[utilization, effective_buffer], FX - utilization]
         ELSE 500000

\* packet_loss + congestion_level ** 2 * 0.1, capped at 1.0
CongestedLoss(packet_loss, congestion_level) ==
    Min[packet_loss + Mul[Mul[congestion_level, congestion_level], 100000], FX]

ThroughputScore(effective_throughput) == Min[Div[effective_throughput, 1500], FX]

LatencyScore(total_latency) == Max[0, FX - Div[total_latency, 150 * FX]]

LossScore(packet_loss) == FX - Div[packet_loss, 10000]

Score(throughput_score, latency_score, loss_score) ==
    Mul[weights.throughput, throughput_score]
    + Mul[weights.latency, latency_score]
    + Mul[weights.loss, loss_score]

calculate_metrics(p) ==
    LET packet_size_bits == p.packet_size * 8
    IN
    IF packet_size_bits = 0 THEN ZeroDivisionError ELSE
    LET arrival_rate == PacketRate(p.b_local, packet_size_bits)
        service_rate == PacketRate(p.b_ec2, packet_size_bits)
    IN
    IF service_rate = 0 THEN ZeroDivisionError ELSE
    LET utilization == StableUtilization(Div[arrival_rate, service_rate])
    IN
    IF FX - utilization = 0 THEN ZeroDivisionError ELSE
    LET queue_length == Div[utilization, FX - utilization]
        service_time_ms == Div[1000 * RATE, service_rate]
        queueing_delay == Mul[queue_length, service_time_ms]
        processing_delay == FX
    IN
    IF p.b_local = 0 THEN ZeroDivisionError ELSE
    LET transmission_delay == Div[p.mtu * 8, p.b_local]
        total_latency == p.l_propagation + queueing_delay + processing_delay + transmission_delay
        effective_buffer == p.buffer_size * (FX - p.congestion_level)
        packet_loss == CongestedLoss(BufferLoss(utilization, effective_buffer), p.congestion_level)
        effective_throughput == Mul[p.b_local, FX - packet_loss]
        score == Score(ThroughputScore(effective_throughput),
                       LatencyScore(total_latency),
                       LossScore(packet_loss))
    IN
    NetworkMetrics(Min[Max[effective_throughput, 0], p.b_local],
                   Max[total_latency, p.l_propagation],
                   Min[Max[packet_loss, 0], FX],
                   queue_length,
                   utilization,
                   score)

\* mtu_values and buffer_sizes of optimize_parameters
mtu_values == <<1280, 1380, 1420, 1480>>

buffer_sizes == <<100, 500, 1000, 1500, 2000>>

GridSize == Len(mtu_values) * Len(buffer_sizes)

\* The k-th (k = 0, 1, ...) pair of "for mtu in mtu_values: for buffer_size in buffer_sizes"
GridMtu(k) == mtu_values[(k \div Len(buffer_sizes)) + 1]

GridBuffer(k) == buffer_sizes[(k % Len(buffer_sizes)) + 1]

\* test_params = NetworkParameters(...) of the grid search
TestParams(self_params, mtu, buffer_size) ==
    NetworkParameters(self_params.b_local, self_params.b_ec2, self_params.l_propagation,
                      mtu, buffer_size, Min[mtu - 20, 1400], self_params.congestion_level)

\* best_score = -1, best_params = None, best_metrics = None
SearchStart(evaluated) ==
    [best_score |-> -FX, best_params |-> None, best_metrics |-> None,
     evaluated |-> evaluated, raised |-> FALSE]

\* Mutant of IsBetter: best_score is never updated, every score is compared
\* with its initial value.
IsBetterStale(score, best_score) == score > -FX

\* if metrics.score > best_score
IsBetter(score, best_score) == score > best_score

\* The loop body once calculate_metrics(test_params) has returned metrics
SearchKeep(acc, test_params, metrics) ==
    IF Raised(metrics) THEN [acc EXCEPT !.raised = TRUE]
    ELSE IF IsBetter(metrics.score, acc.best_score)
    THEN [best_score |-> metrics.score, best_params |-> test_params,
          best_metrics |-> metrics, raised |-> FALSE,
          evaluated |-> Append(acc.evaluated, [params |-> test_params, metrics |-> metrics])]
    ELSE [acc EXCEPT !.evaluated = Append(@, [params |-> test_params, metrics |-> metrics])]

\* One iteration of the grid search's loop; an exception of calculate_metrics
\* leaves the loop.  (The set constructors bind a value that is computed once.)
SearchStep(self_params, acc, k) ==
    CHOOSE next \in
        { SearchKeep(acc, tp, metrics) :
            <<tp, metrics>> \in
                { <<t, calculate_metrics(t)>> :
                    t \in {TestParams(self_params, GridMtu(k), GridBuffer(k))} } } : TRUE

RECURSIVE GridSearch(_, _, _)
GridSearch(self_params, acc, k) ==
    IF k = GridSize \/ acc.raised THEN acc
    ELSE CHOOSE last \in
             { GridSearch(self_params, next, k + 1) :
                 next \in {SearchStep(self_params, acc, k)} } : TRUE

\* The fallback after the loop: "if best_params is None"
SearchResult(self_params, acc) ==
    IF acc.raised THEN ZeroDivisionError
    ELSE IF acc.best_params = None
    THEN CHOOSE r \in
             { IF Raised(current) THEN ZeroDivisionError
               ELSE [raised |-> FALSE, best_params |-> self_params, best_metrics |-> current] :
                 current \in {calculate_metrics(self_params)} } : TRUE
    ELSE [raised |-> FALSE, best_params |-> acc.best_params, best_metrics |-> acc.best_metrics]

\* NetworkOptimizer.optimize_parameters: the value returned (or the exception)
\* and self.evaluated_configs afterwards.
optimize_parameters(self_params, evaluated) ==
    CHOOSE r \in
        { [evaluated_configs |-> acc.evaluated, val |-> SearchResult(self_params, acc)] :
            acc \in {GridSearch(self_params, SearchStart(evaluated), 0)} } : TRUE

\* upgrade_options of recommend_isp_upgrade: (name, bandwidth in Gbps)
upgrade_options ==
    << <<"50Mbps Fiber", 50000>>, <<"100Mbps Fiber", 100000>>, <<"Starlink", 150000>> >>

\* One pass of "for name, bandwidth in upgrade_options": the entry appended
\* to recommendations, or the exception raised
UpgradeOption(self_params, current, option) ==
    LET upgrade_metricsOf ==
            { calculate_metrics([self_params EXCEPT !.b_local = option[2]]) }
    IN  CHOOSE entry \in
          { IF upgrade_metrics.raised THEN upgrade_metrics
            ELSE IF current.effective_throughput = 0 THEN ZeroDivisionError
            ELSE IF upgrade_metrics.total_latency = 0 THEN ZeroDivisionError
            ELSE [raised |-> FALSE,
                  name |-> option[1],
                  bandwidth_gbps |-> option[2],
                  bandwidth_mbps |-> option[2] * 1000,
                  effective_throughput_mbps |-> upgrade_metrics.effective_throughput * 1000,
                  latency_ms |-> upgrade_metrics.total_latency,
                  packet_loss_percent |-> upgrade_metrics.packet_loss * 100,
                  throughput_improvement_factor |->
                      Div[upgrade_metrics.effective_throughput,
                          current.effective_throughput],
                  latency_improvement_factor |->
                      Div[current.total_latency, upgrade_metrics.total_latency],
                  score |-> upgrade_metrics.score] :
            upgrade_metrics \in upgrade_metricsOf } : TRUE

\* list.sort(key=score, reverse=True), one insertion: x goes behind the
\* entries whose score is at least its own (the sort is stable)
RECURSIVE InsertByScore(_, _)
InsertByScore(x, sorted) ==
    IF sorted = <<>> THEN <<x>>
    ELSE IF Head(sorted).score >= x.score
         THEN <<Head(sorted)>> \o InsertByScore(x, Tail(sorted))
         ELSE <<x>> \o sorted

RECURSIVE SortByScore(_)
SortByScore(recommendations) ==
    IF recommendations = <<>> THEN <<>>
    ELSE InsertByScore(
            recommendations[Len(recommendations)],
            SortByScore(SubSeq(recommendations, 1, Len(recommendations) - 1)))

\* The exception that ends the loop: the first one raised
FirstRaised(entries) ==
    entries[CHOOSE k \in 1..Len(entries) :
                entries[k].raised /\ \A j \in 1..(k - 1) : ~entries[j].raised]

\* NetworkOptimizer.recommend_isp_upgrade: the dict returned, or the exception
\* raised
recommend_isp_upgrade(self_params, current) ==
    CHOOSE result \in
      { IF \E k \in 1..Len(entries) : entries[k].raised THEN FirstRaised(entries)
        ELSE CHOOSE r \in
               { [raised |-> FALSE,
                  should_upgrade |-> sorted[1].throughput_improvement_factor > 5 * FX,
                  current_throughput_mbps |-> current.effective_throughput * 1000,
                  best_option |-> sorted[1],
                  all_options |-> sorted] :
                 sorted \in { SortByScore(entries) } } : TRUE :
        entries \in { [k \in 1..Len(upgrade_options) |->
                         UpgradeOption(self_params, current, upgrade_options[k])] } } :
      TRUE

-----------------------------------------------------------------------------
(* Each component is checked as a state machine of its own; the variables of *)
(* the components that take no part in it keep these values.                 *)

NoOptimizer ==
    /\ params = NetworkParameters(1500, FX, 20 * FX, 1420, 1000, 1400, 0)
    /\ evaluated_configs = <<>>

NoBuffer == buffer = <<>> /\ max_size = 0 /\ added = <<>>

NoAgent ==
    /\ epsilon = 0 /\ epsilon_decay = 0 /\ epsilon_min = 0 /\ self_batch_size = 0
    /\ model = <<>> /\ target_model = <<>>
    /\ loss_history = <<>> /\ reward_history = <<>> /\ q_value_history = <<>>
    /\ fit_call = <<>>

NoDriver == current_params = <<>>

NoPersist == disk = [exists |-> FALSE] /\ boots = 0

NoRouting ==
    /\ current_metrics = None /\ current_state = None /\ last_action = None
    /\ wg_config = <<>> /\ optimization_history = <<>> /\ settings = None
    /\ cycles = <<>>

NoTraining == training = None

NoMonitor == monitoring = FALSE /\ monitor_thread = 0 /\ threads = <<>> /\ caller = "idle"

NoExt == NoPersist /\ NoRouting /\ NoTraining /\ NoMonitor

\* The calls that leave an entry in a history of the agent are bounded together.
MaxCalls == 3

Calls == Len(added) + Len(loss_history) + Len(reward_history) + Len(q_value_history)

-----------------------------------------------------------------------------
(* The optimizer as a state machine: an optimizer built on some parameters,  *)
(* then any sequence of its methods.                                         *)

\* Bandwidths (Gbps): none, 0.5 Mbps, the 1.5 Mbps uplink, the 1 Gbps egress.
LocalBandwidths == {0, 500, 1500, FX}

Ec2Bandwidths == {0, 1500, FX}

CongestionLevels == {0, 250000, 750000, FX}

MtuInputs == {1280, 1420, 1500}

BufferInputs == {0, 100, 1000}

MaxSearches == 1

OptimizerInputs ==
    { NetworkParameters(bl, be, 20 * FX, mtu, buf, ps, c) :
        bl \in LocalBandwidths, be \in Ec2Bandwidths, mtu \in MtuInputs,
        buf \in BufferInputs, ps \in {1260, 1400}, c \in CongestionLevels }

InitOptimizer ==
    /\ params \in OptimizerInputs
    /\ evaluated_configs = <<>>
    /\ ret = None
    /\ NoBuffer /\ NoAgent /\ NoDriver /\ NoExt

\* optimizer.calculate_metrics(optimizer.params)
CalculateMetrics ==
    /\ \E m \in {calculate_metrics(params)} :
          ret' = [op |-> "calculate_metrics", arg |-> params, val |-> m]
    /\ UNCHANGED <<extVars, params, evaluated_configs, bufferVars, agentVars, current_params>>

\* optimizer.optimize_parameters()
OptimizeParameters ==
    /\ Len(evaluated_configs) < MaxSearches * GridSize
    /\ \E r \in {optimize_parameters(params, evaluated_configs)} :
          /\ ret' = [op |-> "optimize_parameters", arg |-> params, val |-> r.val]
          /\ evaluated_configs' = r.evaluated_configs
    /\ UNCHANGED <<extVars, params, bufferVars, agentVars, current_params>>

NextOptimizer == CalculateMetrics \/ OptimizeParameters

SpecOptimizer == InitOptimizer /\ [][NextOptimizer]_vars
-----------------------------------------------------------------------------
(* models/reinforcement_learning.py: ExperienceBuffer *)

IndexError == [raised |-> TRUE, error |-> "IndexError"]

ValueError == [raised |-> TRUE, error |-> "ValueError"]

\* Mutant of add: the full buffer evicts with pop() (the newest entry).
addPopLast(buf, max, experience) ==
    IF Len(buf) < max THEN [raised |-> FALSE, buffer |-> Append(buf, experience)]
    ELSE IF buf = <<>> THEN [raised |-> TRUE, buffer |-> buf]
    ELSE [raised |-> FALSE, buffer |-> Append(SubSeq(buf, 1, Len(buf) - 1), experience)]

\* ExperienceBuffer.add: the buffer afterwards; pop(0) of an empty list raises
\* IndexError and leaves the buffer as it was.
add(buf, max, experience) ==
    IF Len(buf) < max THEN [raised |-> FALSE, buffer |-> Append(buf, experience)]
    ELSE IF buf = <<>> THEN [raised |-> TRUE, buffer |-> buf]
    ELSE [raised |-> FALSE, buffer |-> Append(Tail(buf), experience)]

\* random.sample(population, k): every sequence of k entries taken at distinct
\* positions, in any order; ValueError for k < 0.
random_sample(population, k) ==
    IF k < 0 THEN {ValueError}
    ELSE { [raised |-> FALSE, batch |-> [i \in 1..k |-> population[pick[i]]]] :
             pick \in { f \in [1..k -> 1..Len(population)] :
                          \A i, j \in 1..k : i /= j => f[i] /= f[j] } }

\* states, actions, rewards, next_states, dones = zip(*batch): the five columns
\* of a batch; an empty batch yields nothing to unpack, which raises ValueError.
unzip(batch) ==
    IF Len(batch) = 0 THEN ValueError
    ELSE [raised |-> FALSE,
          states |-> [i \in 1..Len(batch) |-> batch[i][1]],
          actions |-> [i \in 1..Len(batch) |-> batch[i][2]],
          rewards |-> [i \in 1..Len(batch) |-> batch[i][3]],
          next_states |-> [i \in 1..Len(batch) |-> batch[i][4]],
          dones |-> [i \in 1..Len(batch) |-> batch[i][5]]]

\* ExperienceBuffer.sample: the set of values a call can return (or raise)
sample(buf, batch_size) ==
    { IF Raised(b) THEN b ELSE unzip(b.batch) :
        b \in random_sample(buf, Min[batch_size, Len(buf)]) }

\* ExperienceBuffer.size
size(buf) == Len(buf)

-----------------------------------------------------------------------------
(* models/reinforcement_learning.py: RoutingAgent *)

STATE_DIM == 3

ACTION_DIM == 4

gamma == 950000

KeyError == [raised |-> TRUE, error |-> "KeyError"]

\* An estimator is the output layer Dense(action_dim, activation='linear')
\* read over the normalised state: one row <<bias, w1, w2, w3>> per action.
\* _build_model initialises the weights at random and fit moves them by an
\* optimiser step; both are a choice among these estimators.
WeightInputs ==
    { << <<100000, 500000, 0, 0>>, <<0, 0, -500000, 0>>,
         <<200000, 0, 0, -FX>>, <<0, 0, 0, 0>> >>,
      << <<0, FX, -FX, 0>>, <<300000, 0, 0, 0>>,
         <<-100000, 0, 0, 500000>>, <<50000, 250000, 0, 0>> >> }

\* RoutingAgent._normalize_state
normalize_state(state) ==
    << Div[Min[Max[state[1], 0], 10 * FX], 10 * FX],
       Div[Min[Max[state[2], 0], 300 * FX], 300 * FX],
       Div[Min[Max[state[3], 0], 10 * FX], 10 * FX] >>

\* model.predict for one normalised state: the Q-value of each action
predict(w, x) ==
    [a \in 1..ACTION_DIM |->
        w[a][1] + Mul[w[a][2], x[1]] + Mul[w[a][3], x[2]] + Mul[w[a][4], x[3]]]

\* np.max(next_q[i])
np_max(q) == CHOOSE m \in { q[a] : a \in DOMAIN q } : \A a \in DOMAIN q : q[a] <= m

\* The target row of sample i: the prediction with the entry of the action
\* taken replaced by the reward (plus the discounted best next Q-value).
TargetRow(current_q, next_q, action, reward, done) ==
    [current_q EXCEPT ![action + 1] =
        IF done THEN reward ELSE reward + Mul[gamma, np_max(next_q)]]

\* The sum of the squared differences of two rows
SquaredError(q, t) ==
    Mul[q[1] - t[1], q[1] - t[1]] + Mul[q[2] - t[2], q[2] - t[2]]
      + Mul[q[3] - t[3], q[3] - t[3]] + Mul[q[4] - t[4], q[4] - t[4]]

RECURSIVE SumSquaredError(_, _, _)
SumSquaredError(qs, ts, n) ==
    IF n = 0 THEN 0
    ELSE SquaredError(qs[n], ts[n]) + SumSquaredError(qs, ts, n - 1)

\* loss='mse': the mean over the batch and the actions
mse(qs, ts) == (SumSquaredError(qs, ts, Len(qs)) \div Len(qs)) \div ACTION_DIM

\* if batch_size is None: batch_size = self.batch_size.  An argument is <<>>
\* for None and <<n>> for the integer n.
TrainBatch(batch_size, self_bs) ==
    IF batch_size = <<>> THEN self_bs ELSE batch_size[1]

\* Mutant of SkipTraining: the skipped step is logged as a loss of 0.
SkipTrainingLogged(eps, mdl, losses) ==
    [raised |-> FALSE, loss |-> 0, epsilon |-> eps, model |-> mdl,
     loss_history |-> Append(losses, 0), fit |-> <<>>]

\* if self.memory.size() < batch_size: return 0
SkipTraining(eps, mdl, losses) ==
    [raised |-> FALSE, loss |-> 0, epsilon |-> eps, model |-> mdl,
     loss_history |-> losses, fit |-> <<>>]

\* Mutant of DecayEpsilon: the decay ignores the floor.
DecayEpsilonAlways(eps, decay, floor) == Mul[eps, decay]

\* if self.epsilon > self.epsilon_min: self.epsilon *= self.epsilon_decay
DecayEpsilon(eps, decay, floor) ==
    IF eps > floor THEN Mul[eps, decay] ELSE eps

\* current_q = self.model.predict(states): one row per sampled transition
CurrentQ(b, mdl) ==
    [i \in 1..Len(b.states) |-> predict(mdl, normalize_state(b.states[i]))]

\* Mutant of NextQ: the next Q-values are read from the online estimator.
NextQOnline(b, mdl, tgt) ==
    [i \in 1..Len(b.next_states) |-> predict(mdl, normalize_state(b.next_states[i]))]

\* next_q = self.target_model.predict(next_states)
NextQ(b, mdl, tgt) ==
    [i \in 1..Len(b.next_states) |-> predict(tgt, normalize_state(b.next_states[i]))]

\* for i in range(batch_size): current_q[i, actions[i]] = ...; the rows that
\* are handed to model.fit as targets.
Targets(b, qs, nq) ==
    [i \in 1..Len(qs) |->
        TargetRow(qs[i], nq[i], b.actions[i], b.rewards[i], b.dones[i])]

\* The (states, targets) of model.fit for the sampled batch b, with the batch
\* and the prediction the targets were written over.
FitCall(b, mdl, tgt) ==
    CHOOSE f \in
      { [batch |-> b,
         states |-> [i \in 1..Len(b.states) |-> normalize_state(b.states[i])],
         current_q |-> qs,
         targets |-> ts] :
          qs \in { CurrentQ(b, mdl) },
          ts \in { Targets(b, CurrentQ(b, mdl), NextQ(b, mdl, tgt)) } } : TRUE

\* The loss of fitting the sampled batch b: the Q-values of model mdl against
\* the targets built with the target estimator tgt.
BatchLoss(b, mdl, tgt) ==
    CHOOSE l \in
      { mse(qs, Targets(b, qs, nq)) :
          qs \in { CurrentQ(b, mdl) },
          nq \in { NextQ(b, mdl, tgt) } } : TRUE

\* RoutingAgent.train: the outcomes of one call, each the loss returned (or
\* the exception raised) with the agent's fields afterwards and the model.fit
\* call made (<<>> for none).
train(batch_size, eps, decay, floor, self_bs, mdl, tgt, losses, buf) ==
    IF size(buf) < TrainBatch(batch_size, self_bs)
    THEN { SkipTraining(eps, mdl, losses) }
    ELSE UNION
      { IF Raised(b)
        THEN { [raised |-> TRUE, loss |-> 0, epsilon |-> eps, model |-> mdl,
                loss_history |-> losses, fit |-> <<>>] }
        ELSE { [raised |-> FALSE, loss |-> l, epsilon |-> DecayEpsilon(eps, decay, floor),
                model |-> fitted, loss_history |-> Append(losses, l), fit |-> f] :
                 l \in { BatchLoss(b, mdl, tgt) }, f \in { FitCall(b, mdl, tgt) },
                 fitted \in WeightInputs } :
        b \in sample(buf, TrainBatch(batch_size, self_bs)) }

\* Mutant of update_target_model: the weights are not copied.
update_target_modelSkipped(mdl, tgt) == tgt

\* RoutingAgent.update_target_model: the target estimator afterwards
update_target_model(mdl, tgt) == mdl

\* self.epsilon = max(0.2, self.epsilon_min) for a loaded model
LoadedEpsilon(floor) == Max[200000, floor]

\* np.argmax(q_values): the 0-based index of the first greatest entry
np_argmax(q) ==
    (CHOOSE a \in DOMAIN q : q[a] = np_max(q) /\ \A b \in DOMAIN q : b < a => q[b] < q[a]) - 1

\* Mutant of MayExplore: the explore flag is not consulted.
MayExploreUnasked(explore, eps) == eps > 0

\* explore and np.random.rand() < self.epsilon can be true: rand() is in [0, 1)
MayExplore(explore, eps) == explore /\ eps > 0

\* explore and np.random.rand() < self.epsilon can be false
MayExploit(explore, eps) == ~explore \/ eps < FX

\* RoutingAgent.choose_action: the outcomes of one call, each the index
\* returned, the branch taken and what is appended to q_value_history.
choose_action(state, explore, eps, mdl) ==
    (IF MayExplore(explore, eps)
       THEN { [action |-> a, branch |-> "explore", appended |-> <<>>] :
                a \in 0..(ACTION_DIM - 1) }
       ELSE {})
    \cup
    (IF MayExploit(explore, eps)
       THEN { [action |-> np_argmax(q), branch |-> "exploit", appended |-> <<np_max(q)>>] :
                q \in { predict(mdl, normalize_state(state)) } }
       ELSE {})

\* calculate_reward: w1, w2, w3
w1 == 500000

w2 == 300000

w3 == 200000

\* throughput = metrics.effective_throughput * 1000 (Mbps)
ThroughputMbps(metrics) == metrics.effective_throughput * 1000

\* packet_loss = metrics.packet_loss * 100 (percent)
PacketLossPercent(metrics) == metrics.packet_loss * 100

\* base_reward: throughput over 1.5 Mbps capped at 5, latency over 100 ms
\* capped at 3, loss over 1 % capped at 10
BaseReward(throughput, latency, packet_loss) ==
    Mul[w1, Min[Div[throughput, 1500000], 5 * FX]]
      - Mul[w2, Min[Div[latency, 100 * FX], 3 * FX]]
      - Mul[w3, Min[Div[packet_loss, FX], 10 * FX]]

\* (throughput - prev_throughput) / prev_throughput if prev_throughput > 0
GainOver(value, prev) == IF prev > 0 THEN Div[value - prev, prev] ELSE 0

\* Mutant of DropUnder: the difference is taken the wrong way round.
DropUnderSwapped(value, prev) == IF prev > 0 THEN Div[value - prev, prev] ELSE 0

\* (prev_latency - latency) / prev_latency if prev_latency > 0 (and the same
\* for the packet loss)
DropUnder(value, prev) == IF prev > 0 THEN Div[prev - value, prev] ELSE 0

\* improvement_reward
ImprovementReward(throughput, latency, packet_loss, prev) ==
    Mul[w1, Min[GainOver(throughput, ThroughputMbps(prev)), FX]]
      + Mul[w2, Min[DropUnder(latency, prev.total_latency), FX]]
      + Mul[w3, Min[DropUnder(packet_loss, PacketLossPercent(prev)), FX]]

\* if throughput > 1.0 and latency < 70 and packet_loss < 2.0
GoodPerformance(throughput, latency, packet_loss) ==
    throughput > FX /\ latency < 70 * FX /\ packet_loss < 2 * FX

\* if throughput < 0.1 or latency > 200 or packet_loss > 15.0
PoorPerformance(throughput, latency, packet_loss) ==
    throughput < 100000 \/ latency > 200 * FX \/ packet_loss > 15 * FX

\* The reward for the three measurements; prev_metrics is <<>> for None and
\* <<p>> for the metrics p.
Reward(throughput, latency, packet_loss, prev_metrics) ==
    (IF prev_metrics /= <<>>
       THEN BaseReward(throughput, latency, packet_loss)
              + ImprovementReward(throughput, latency, packet_loss, prev_metrics[1])
       ELSE BaseReward(throughput, latency, packet_loss))
      + (IF GoodPerformance(throughput, latency, packet_loss) THEN FX ELSE 0)
      - (IF PoorPerformance(throughput, latency, packet_loss) THEN 2 * FX ELSE 0)

\* RoutingAgent.calculate_reward: the reward returned (and appended to
\* reward_history)
calculate_reward(metrics, prev_metrics) ==
    CHOOSE r \in
      { Reward(t, l, pl, prev_metrics) :
          t \in { ThroughputMbps(metrics) }, l \in { metrics.total_latency },
          pl \in { PacketLossPercent(metrics) } } : TRUE

\* self.actions
actions == << "increase_mtu", "decrease_mtu", "toggle_split_tunnel", "prioritize_aws" >>

\* Python list indexing: the 1-based position of list[idx] in a list of n
\* entries, negative indices counting from the end; 0 for an IndexError.
ListIndex(n, idx) ==
    IF 0 <= idx /\ idx < n THEN idx + 1
    ELSE IF -n <= idx /\ idx < 0 THEN n + idx + 1
    ELSE 0

\* dict.get(key, default)
Get(dict, key, default) == IF key \in DOMAIN dict THEN dict[key] ELSE default

\* dict[key] = value on a copy
Set(dict, key, value) ==
    [k \in DOMAIN dict \cup {key} |-> IF k = key THEN value ELSE dict[k]]

\* Mutant of IncreaseMtu: the step is clamped one step too low.
IncreaseMtuClampLow(mtu) == Min[mtu + 40, 1460]

\* min(current_params["mtu"] + 40, 1500)
IncreaseMtu(mtu) == Min[mtu + 40, 1500]

\* max(current_params["mtu"] - 40, 1280)
DecreaseMtu(mtu) == Max[mtu - 40, 1280]

\* RoutingAgent.apply_action: the dict returned, or the exception raised
apply_action(action_idx, cp) ==
    LET i == ListIndex(Len(actions), action_idx)
    IN  IF i = 0 THEN IndexError
        ELSE IF actions[i] = "increase_mtu"
        THEN IF "mtu" \in DOMAIN cp
             THEN [raised |-> FALSE, params |-> Set(cp, "mtu", IncreaseMtu(cp["mtu"]))]
             ELSE KeyError
        ELSE IF actions[i] = "decrease_mtu"
        THEN IF "mtu" \in DOMAIN cp
             THEN [raised |-> FALSE, params |-> Set(cp, "mtu", DecreaseMtu(cp["mtu"]))]
             ELSE KeyError
        ELSE IF actions[i] = "toggle_split_tunnel"
        THEN [raised |-> FALSE,
              params |-> Set(cp, "direct_tunnel", ~Get(cp, "direct_tunnel", TRUE))]
        ELSE [raised |-> FALSE,
              params |-> Set(cp, "prioritize_aws", ~Get(cp, "prioritize_aws", FALSE))]

-----------------------------------------------------------------------------
(* The experience buffer as a state machine *)

MaxCapacity == 3

MaxAdds == 5

MaxSample == 3

\* State vectors [throughput (Mbps), latency (ms), packet_loss (%)]
StateInputs == { <<1500000, 28573350, 0>>, <<1415625, 28573350, 5625000>> }

\* (state, action, reward, next_state, done)
ExperienceInputs ==
    { <<<<1500000, 28573350, 0>>, 0, 500000, <<1415625, 28573350, 5625000>>, FALSE>>,
      <<<<1415625, 28573350, 5625000>>, 2, -FX, <<1500000, 28573350, 0>>, TRUE>> }

\* ExperienceBuffer(max_size)
InitBuffer ==
    /\ max_size \in 0..MaxCapacity
    /\ buffer = <<>>
    /\ added = <<>>
    /\ ret = None
    /\ NoOptimizer /\ NoAgent /\ NoDriver /\ NoExt

\* buffer.add(state, action, reward, next_state, done)
Add ==
    /\ Len(added) < MaxAdds
    /\ \E experience \in ExperienceInputs :
         \E r \in {add(buffer, max_size, experience)} :
            /\ buffer' = r.buffer
            /\ added' = Append(added, experience)
            /\ ret' = [op |-> "add", arg |-> experience,
                       val |-> IF r.raised THEN IndexError ELSE None]
    /\ UNCHANGED <<extVars, max_size, optimizerVars, agentVars, current_params>>

\* buffer.sample(batch_size)
Sample ==
    /\ \E batch_size \in 0..MaxSample :
         \E r \in sample(buffer, batch_size) :
            ret' = [op |-> "sample", arg |-> batch_size, val |-> r]
    /\ UNCHANGED <<extVars, bufferVars, optimizerVars, agentVars, current_params>>

\* buffer.size()
Size ==
    /\ ret' = [op |-> "size", arg |-> None, val |-> size(buffer)]
    /\ UNCHANGED <<extVars, bufferVars, optimizerVars, agentVars, current_params>>

NextBuffer == Add \/ Sample \/ Size

SpecBuffer == InitBuffer /\ [][NextBuffer]_vars

-----------------------------------------------------------------------------
(* calculate_reward as a state machine *)

MaxRewards == 2

\* NetworkMetrics with the three fields calculate_reward reads:
\* effective_throughput (Gbps), total_latency (ms), packet_loss (fraction)
Measured(effective_throughput, total_latency, packet_loss) ==
    NetworkMetrics(effective_throughput, total_latency, packet_loss, 0, 0, 0)

\* (metrics, prev_metrics) pairs: a clear improvement and its reverse, a
\* snapshot that is worse by the last digit only, throughputs between 0.1 and
\* 1 times the 1.5 Mbps baseline, and a latency 300 times the previous one.
RewardInputs ==
    { <<Measured(3000, 50 * FX, 10000), <<>>>>,
      <<Measured(3000, 50 * FX, 10000), <<Measured(1500, 100 * FX, 20000)>>>>,
      <<Measured(1500, 100 * FX, 20000), <<Measured(3000, 50 * FX, 10000)>>>>,
      <<Measured(3000, 50 * FX, 500000), <<>>>>,
      <<Measured(3000, 50 * FX, 500000), <<Measured(0, 50 * FX + 1, 500001)>>>>,
      <<Measured(1200, 50 * FX, 0), <<>>>>,
      <<Measured(1200, 50 * FX, 0), <<Measured(1200, 50 * FX, 0)>>>>,
      <<Measured(120, 50 * FX, 0), <<>>>>,
      <<Measured(1600, 60 * FX, 10000), <<Measured(1500, 100 * FX, 20000)>>>>,
      <<Measured(50, 250 * FX, 200000), <<Measured(1500, 100 * FX, 20000)>>>>,
      <<Measured(1500, 300 * FX, 0), <<>>>>,
      <<Measured(1500, 300 * FX, 0), <<Measured(1500, FX, 0)>>>> }

InitReward ==
    /\ ret = None
    /\ NoOptimizer /\ NoBuffer /\ NoAgent /\ NoDriver /\ NoExt

\* agent.calculate_reward(metrics, prev_metrics) on one of the given inputs
CalculateRewardOf(inputs) ==
    /\ Len(reward_history) < MaxRewards
    /\ Calls < MaxCalls
    /\ \E input \in inputs :
         \E r \in {calculate_reward(input[1], input[2])} :
            /\ reward_history' = Append(reward_history, r)
            /\ ret' = [op |-> "calculate_reward", arg |-> input,
                       val |-> [raised |-> FALSE, reward |-> r]]
    /\ UNCHANGED <<extVars, epsilon, epsilon_decay, epsilon_min, self_batch_size, model,
                   target_model, loss_history, q_value_history, fit_call, bufferVars,
                   optimizerVars, current_params>>

CalculateReward == CalculateRewardOf(RewardInputs)

NextReward == CalculateReward

SpecReward == InitReward /\ [][NextReward]_vars

-----------------------------------------------------------------------------
(* The routing agent as a state machine *)

MaxTrain == 2

MaxRemember == 2

\* Constructor arguments (epsilon, epsilon_decay, epsilon_min, batch_size,
\* memory_size)
AgentConfigs ==
    { [epsilon |-> FX, epsilon_decay |-> 995000, epsilon_min |-> 100000,
       batch_size |-> 2, memory_size |-> 2],
      [epsilon |-> 250000, epsilon_decay |-> 500000, epsilon_min |-> 200000,
       batch_size |-> 1, memory_size |-> 2] }

\* train(), train(0), train(1), train(2)
TrainArgs == { <<>>, <<0>>, <<1>>, <<2>> }

\* RoutingAgent(...): a saved model is loaded when one exists, and the
\* exploration rate then starts at max(0.2, epsilon_min); the target
\* estimator starts as a copy of the online one.
InitAgent ==
    /\ \E c \in AgentConfigs, loaded \in BOOLEAN :
         /\ epsilon = IF loaded THEN LoadedEpsilon(c.epsilon_min) ELSE c.epsilon
         /\ epsilon_decay = c.epsilon_decay
         /\ epsilon_min = c.epsilon_min
         /\ self_batch_size = c.batch_size
         /\ max_size = c.memory_size
         /\ ret = [op |-> "__init__", arg |-> [config |-> c, loaded |-> loaded],
                   val |-> None]
    /\ buffer = <<>>
    /\ added = <<>>
    /\ model \in WeightInputs
    /\ target_model = update_target_model(model, model)
    /\ loss_history = <<>> /\ reward_history = <<>> /\ q_value_history = <<>>
    /\ fit_call = <<>>
    /\ NoOptimizer /\ NoDriver /\ NoExt

\* agent.remember(state, action, reward, next_state, done)
Remember ==
    /\ Len(added) < MaxRemember
    /\ Calls < MaxCalls
    /\ \E experience \in ExperienceInputs :
         \E r \in {add(buffer, max_size, experience)} :
            /\ buffer' = r.buffer
            /\ added' = Append(added, experience)
            /\ ret' = [op |-> "remember", arg |-> experience,
                       val |-> IF r.raised THEN IndexError ELSE None]
    /\ UNCHANGED <<extVars, max_size, optimizerVars, agentVars, current_params>>

\* agent.train(batch_size)
Train ==
    /\ Len(loss_history) < MaxTrain
    /\ Calls < MaxCalls
    /\ \E batch_size \in TrainArgs :
         \E r \in train(batch_size, epsilon, epsilon_decay, epsilon_min, self_batch_size,
                        model, target_model, loss_history, buffer) :
            /\ epsilon' = r.epsilon
            /\ model' = r.model
            /\ loss_history' = r.loss_history
            /\ fit_call' = IF r.fit = <<>> THEN fit_call ELSE r.fit
            /\ ret' = [op |-> "train", arg |-> batch_size,
                       val |-> IF r.raised THEN ValueError
                               ELSE [raised |-> FALSE, loss |-> r.loss]]
    /\ UNCHANGED <<extVars, epsilon_decay, epsilon_min, self_batch_size, target_model,
                   reward_history, q_value_history, bufferVars, optimizerVars,
                   current_params>>

\* agent.update_target_model()
UpdateTargetModel ==
    /\ target_model' = update_target_model(model, target_model)
    /\ ret' = [op |-> "update_target_model", arg |-> None, val |-> None]
    /\ UNCHANGED <<extVars, epsilon, epsilon_decay, epsilon_min, self_batch_size, model,
                   loss_history, reward_history, q_value_history, fit_call, bufferVars,
                   optimizerVars, current_params>>

\* agent.choose_action(state, explore)
ChooseAction ==
    /\ Calls < MaxCalls
    /\ \E state \in StateInputs, explore \in BOOLEAN :
         \E r \in choose_action(state, explore, epsilon, model) :
            /\ q_value_history' = q_value_history \o r.appended
            /\ ret' = [op |-> "choose_action", arg |-> [state |-> state, explore |-> explore],
                       val |-> [raised |-> FALSE, action |-> r.action, branch |-> r.branch]]
    /\ UNCHANGED <<extVars, epsilon, epsilon_decay, epsilon_min, self_batch_size, model,
                   target_model, loss_history, reward_history, fit_call, bufferVars,
                   optimizerVars, current_params>>

\* The rewards an agent is asked for between its other calls: an improvement
\* and a degradation
AgentRewardInputs ==
    { <<Measured(3000, 50 * FX, 10000), <<Measured(1500, 100 * FX, 20000)>>>>,
      <<Measured(50, 250 * FX, 200000), <<>>>> }

AgentCalculateReward == CalculateRewardOf(AgentRewardInputs)

NextAgent ==
    Remember \/ Train \/ UpdateTargetModel \/ ChooseAction \/ AgentCalculateReward

SpecAgent == InitAgent /\ [][NextAgent]_vars

-----------------------------------------------------------------------------
(* recommend_isp_upgrade on an optimizer built on some parameters *)

\* The optimizer's own parameters: egress of 1, 0.1 and 0.06 Gbps
UpgradeParams ==
    { NetworkParameters(1500, be, 20 * FX, mtu, buf, ps, c) :
        be \in {FX, 100000, 60000}, mtu \in MtuInputs, buf \in {100, 1000},
        ps \in {1260, 1400}, c \in CongestionLevels }

\* current_metrics: no throughput at all, the 1.5 Mbps uplink, 11, 20 and 40 Mbps
CurrentMetricsInputs ==
    { Measured(t, 28 * FX, 0) : t \in {0, 1500, 11000, 20000, 40000} }

InitUpgrade ==
    /\ params \in UpgradeParams
    /\ evaluated_configs = <<>>
    /\ ret = None
    /\ NoBuffer /\ NoAgent /\ NoDriver /\ NoExt

\* optimizer.recommend_isp_upgrade(current_metrics)
RecommendIspUpgrade ==
    /\ \E current_metrics_arg \in CurrentMetricsInputs :
         \E r \in {recommend_isp_upgrade(params, current_metrics_arg)} :
            ret' = [op |-> "recommend_isp_upgrade", arg |-> current_metrics_arg, val |-> r]
    /\ UNCHANGED <<extVars, params, evaluated_configs, bufferVars, agentVars,
                   current_params>>

NextUpgrade == RecommendIspUpgrade

SpecUpgrade == InitUpgrade /\ [][NextUpgrade]_vars

-----------------------------------------------------------------------------
(* Saving an agent and constructing the next one on the same model_dir *)

learning_rate == 1000

MetadataWindow == 100

MaxBoots == 2

\* model_dir before anything was saved
NoFiles == [exists |-> FALSE]

\* model_dir with a routing_agent_model that keras cannot load (files of the
\* saved model missing or damaged)
Malformed == [exists |-> TRUE, model_file |-> [ok |-> FALSE], metadata |-> None]

\* history[-100:] if history else []
Recent(history) ==
    SubSeq(history, Max[1, Len(history) - MetadataWindow + 1], Len(history))

\* RoutingAgent._save_model: the model, and metadata.json beside it
_save_model(eps, self_bs, mdl, losses, rewards) ==
    [exists |-> TRUE,
     model_file |-> [ok |-> TRUE, weights |-> mdl],
     metadata |-> [epsilon |-> eps, gamma |-> gamma, learning_rate |-> learning_rate,
                   batch_size |-> self_bs, state_dim |-> STATE_DIM,
                   action_dim |-> ACTION_DIM,
                   loss_history |-> Recent(losses),
                   reward_history |-> Recent(rewards)]]

\* RoutingAgent._build_model: a new estimator, initialised at random
_build_model == WeightInputs

_load_modelRaising(d) ==
    IF d.model_file.ok
    THEN { [raised |-> FALSE, model |-> d.model_file.weights, built |-> FALSE,
            log |-> <<>>] }
    ELSE { [raised |-> TRUE, error |-> "OSError"] }

\* RoutingAgent._load_model: keras.models.load_model, and a new estimator
\* when that raises
_load_model(d) ==
    IF d.model_file.ok
    THEN { [raised |-> FALSE, model |-> d.model_file.weights, built |-> FALSE,
            log |-> <<>>] }
    ELSE { [raised |-> FALSE, model |-> w, built |-> TRUE,
            log |-> <<"Error loading model">>] : w \in _build_model }

\* RoutingAgent.__init__ on a model_dir holding d: the fields of the new agent
\* that depend on d, or the exception that leaves no agent
__init__(c, d) ==
    IF d.exists
    THEN { IF l.raised THEN l
           ELSE [raised |-> FALSE, epsilon |-> LoadedEpsilon(c.epsilon_min),
                 model |-> l.model, target_model |-> update_target_model(l.model, t),
                 loss_history |-> <<>>, reward_history |-> <<>>,
                 q_value_history |-> <<>>, built |-> l.built, log |-> l.log] :
             l \in _load_model(d), t \in _build_model }
    ELSE { [raised |-> FALSE, epsilon |-> c.epsilon, model |-> w,
            target_model |-> update_target_model(w, t),
            loss_history |-> <<>>, reward_history |-> <<>>,
            q_value_history |-> <<>>, built |-> TRUE, log |-> <<>>] :
             w \in _build_model, t \in _build_model }

\* What the constructor call leaves in ret
Constructed(c, d, a) ==
    [op |-> "__init__", arg |-> [config |-> c, loaded |-> d.exists],
     val |-> IF a.raised THEN a ELSE None,
     built |-> IF a.raised THEN FALSE ELSE a.built,
     log |-> IF a.raised THEN <<>> ELSE a.log]

\* RoutingAgent(**c) on a model_dir that is empty or holds a malformed model
InitPersist ==
    /\ disk \in {NoFiles, Malformed}
    /\ boots = 1
    /\ \E c \in AgentConfigs : \E a \in __init__(c, disk) :
         /\ epsilon = (IF a.raised THEN 0 ELSE a.epsilon)
         /\ epsilon_decay = c.epsilon_decay
         /\ epsilon_min = c.epsilon_min
         /\ self_batch_size = c.batch_size
         /\ max_size = c.memory_size
         /\ model = (IF a.raised THEN <<>> ELSE a.model)
         /\ target_model = (IF a.raised THEN <<>> ELSE a.target_model)
         /\ ret = Constructed(c, disk, a)
    /\ buffer = <<>>
    /\ added = <<>>
    /\ loss_history = <<>> /\ reward_history = <<>> /\ q_value_history = <<>>
    /\ fit_call = <<>>
    /\ NoOptimizer /\ NoDriver /\ NoRouting /\ NoTraining /\ NoMonitor

\* agent.save()
Save ==
    /\ model /= <<>>
    /\ disk' = _save_model(epsilon, self_batch_size, model, loss_history, reward_history)
    /\ ret' = [op |-> "save", arg |-> None, val |-> None]
    /\ UNCHANGED <<boots, optimizerVars, bufferVars, agentVars, current_params, routingVars,
                   trainingVars, monitorVars>>

\* The process ends and a later one constructs RoutingAgent(**c) on the same
\* model_dir, once there is something in it
Restart ==
    /\ boots < MaxBoots
    /\ disk.exists
    /\ boots' = boots + 1
    /\ \E c \in AgentConfigs : \E a \in __init__(c, disk) :
         /\ epsilon' = (IF a.raised THEN 0 ELSE a.epsilon)
         /\ epsilon_decay' = c.epsilon_decay
         /\ epsilon_min' = c.epsilon_min
         /\ self_batch_size' = c.batch_size
         /\ max_size' = c.memory_size
         /\ model' = (IF a.raised THEN <<>> ELSE a.model)
         /\ target_model' = (IF a.raised THEN <<>> ELSE a.target_model)
         /\ ret' = Constructed(c, disk, a)
    /\ buffer' = <<>>
    /\ added' = <<>>
    /\ loss_history' = <<>> /\ reward_history' = <<>> /\ q_value_history' = <<>>
    /\ fit_call' = <<>>
    /\ UNCHANGED <<disk, optimizerVars, current_params, routingVars,
                   trainingVars, monitorVars>>

\* Between two processes, files of the saved model are lost or damaged
Damage ==
    /\ disk.exists
    /\ disk /= Malformed
    /\ disk' = Malformed
    /\ ret' = None
    /\ UNCHANGED <<boots, optimizerVars, bufferVars, agentVars, current_params, routingVars,
                   trainingVars, monitorVars>>

NextPersist == AgentCalculateReward \/ Save \/ Damage \/ Restart

SpecPersist == InitPersist /\ [][NextPersist]_vars

-----------------------------------------------------------------------------
(* scripts/optimize_routing.py RoutingOptimizer.optimize_routing and          *)
(* wireguard_manager.py WireGuardManager.update_config.  A call blocks in the *)
(* measurement and in the manager's update; other callers run meanwhile.      *)

MaxCycles == 2

\* The threads that call optimize_routing on the one RoutingOptimizer
Callers == {"c1", "c2"}

\* state_from_metrics: [throughput (Mbps), latency (ms), packet loss (%)]
state_from_metrics(metrics) ==
    << ThroughputMbps(metrics), metrics.total_latency, PacketLossPercent(metrics) >>

\* What measure_network_performance returns: the 1.5 Mbps uplink idle, and
\* congested
MeasuredInputs == { Measured(1500, 28573350, 0), Measured(750, 120 * FX, 50000) }

\* _load_wireguard_config: the defaults, and a file written by hand
WgConfigInputs ==
    { [mtu |-> 1420, direct_tunnel |-> TRUE, prioritize_aws |-> FALSE],
      [mtu |-> 1200, direct_tunnel |-> FALSE, prioritize_aws |-> TRUE] }

\* WireGuardManager._create_default_settings, of which update_config can only
\* meet direct_tunnel
DefaultSettings == [direct_tunnel |-> TRUE, keep_alive |-> 25]

\* WireGuardManager._load_settings: the defaults, or a settings.json that
\* happens to hold an mtu; None when the optimizer has no manager
SettingsInputs ==
    { DefaultSettings, [direct_tunnel |-> FALSE, keep_alive |-> 25, mtu |-> 1420], None }

\* dict.update(other)
Update(dict, other) ==
    [k \in DOMAIN dict \cup DOMAIN other |->
        IF k \in DOMAIN other THEN other[k] ELSE dict[k]]

\* for key, value in config_data.items(): if key in self.settings: ...
UpdateKnownKeys(dict, config_data) ==
    [k \in DOMAIN dict |-> IF k \in DOMAIN config_data THEN config_data[k] ELSE dict[k]]

\* WireGuardManager.update_config: the settings afterwards and the result;
\* _save_settings can raise, _generate_wg_config logs its own errors
update_config(self_settings, config_data) ==
    { [settings |-> UpdateKnownKeys(self_settings, config_data),
       result |-> [success |-> TRUE]],
      [settings |-> UpdateKnownKeys(self_settings, config_data),
       result |-> [success |-> FALSE, error |-> "OSError"]] }

\* A caller outside optimize_routing
Idle == [pc |-> "idle"]

CyclesBegun ==
    Len(optimization_history) + Cardinality({ c \in Callers : cycles[c].pc /= "idle" })

\* RoutingOptimizer(config_dir, wireguard_mgr), its agent a new one
InitRouting ==
    /\ current_metrics = None /\ current_state = None /\ last_action = None
    /\ wg_config \in WgConfigInputs
    /\ optimization_history = <<>>
    /\ settings \in SettingsInputs
    /\ cycles = [c \in Callers |-> Idle]
    /\ \E c \in AgentConfigs :
         /\ c.epsilon = FX
         /\ epsilon = c.epsilon
         /\ epsilon_decay = c.epsilon_decay
         /\ epsilon_min = c.epsilon_min
         /\ self_batch_size = c.batch_size
         /\ max_size = c.memory_size
    /\ buffer = <<>>
    /\ added = <<>>
    /\ model \in WeightInputs
    /\ target_model = update_target_model(model, model)
    /\ loss_history = <<>> /\ reward_history = <<>> /\ q_value_history = <<>>
    /\ fit_call = <<>>
    /\ ret = None
    /\ NoOptimizer /\ NoDriver /\ NoPersist /\ NoTraining /\ NoMonitor

\* optimize_routing, line 351: the measurement returns and is kept in
\* self.current_metrics
Measure(c) ==
    /\ cycles[c].pc = "idle"
    /\ CyclesBegun < MaxCycles
    /\ \E explore \in BOOLEAN, m \in MeasuredInputs :
         /\ current_metrics' = m
         /\ cycles' = [cycles EXCEPT ![c] =
                          [pc |-> "measured", explore |-> explore, measured |-> m]]
    /\ UNCHANGED <<current_state, last_action, wg_config, optimization_history,
                   settings, ret, optimizerVars, bufferVars, agentVars, current_params,
                   persistVars, trainingVars, monitorVars>>

\* optimize_routing, lines 354-371: the state vector, the action, the new
\* parameters, kept in self.wg_config
Decide(c) ==
    /\ cycles[c].pc = "measured"
    /\ \E state \in {state_from_metrics(current_metrics)} :
         \E a \in choose_action(state, cycles[c].explore, epsilon, model) :
            \E new \in {apply_action(a.action,
                           [mtu |-> Get(wg_config, "mtu", 1420),
                            direct_tunnel |-> Get(wg_config, "direct_tunnel", TRUE),
                            prioritize_aws |-> Get(wg_config, "prioritize_aws", FALSE)])} :
               /\ current_state' = state
               /\ q_value_history' = q_value_history \o a.appended
               /\ last_action' = a.action
               /\ wg_config' = Update(wg_config, new.params)
               /\ cycles' = [cycles EXCEPT ![c] =
                                [pc |-> "applying", explore |-> cycles[c].explore,
                                 measured |-> cycles[c].measured, action |-> a.action,
                                 new_param_dict |-> new.params]]
    /\ UNCHANGED <<current_metrics, optimization_history, settings, ret, optimizerVars,
                   bufferVars, epsilon, epsilon_decay, epsilon_min, self_batch_size,
                   model, target_model, loss_history, reward_history, fit_call,
                   current_params, persistVars, trainingVars, monitorVars>>

\* optimize_routing, lines 373-389: the manager's update returns; a failure
\* is logged
Apply(c) ==
    /\ cycles[c].pc = "applying"
    /\ \E u \in (IF settings = None
                 THEN { [settings |-> None, result |-> None] }
                 ELSE update_config(settings,
                         [mtu |-> cycles[c].new_param_dict["mtu"],
                          direct_tunnel |-> cycles[c].new_param_dict["direct_tunnel"]])) :
         /\ settings' = u.settings
         /\ cycles' = [cycles EXCEPT ![c] =
                          [pc |-> "recording", explore |-> cycles[c].explore,
                           measured |-> cycles[c].measured, action |-> cycles[c].action,
                           new_param_dict |-> cycles[c].new_param_dict,
                           result |-> u.result]]
    /\ UNCHANGED <<current_metrics, current_state, last_action, wg_config,
                   optimization_history, ret, optimizerVars, bufferVars, agentVars,
                   current_params, persistVars, trainingVars, monitorVars>>

\* The entry optimize_routing appends; measured and result are history: what
\* the caller measured and what the manager answered
HistoryEntry(c) ==
    [state |-> current_state,
     action |-> cycles[c].action,
     action_name |-> actions[cycles[c].action + 1],
     metrics |-> [throughput_mbps |-> ThroughputMbps(current_metrics),
                  latency_ms |-> current_metrics.total_latency,
                  packet_loss_percent |-> PacketLossPercent(current_metrics)],
     parameters |-> cycles[c].new_param_dict,
     measured |-> cycles[c].measured,
     result |-> cycles[c].result]

\* optimize_routing, lines 391-410: the step is recorded and the call returns
Record(c) ==
    /\ cycles[c].pc = "recording"
    /\ optimization_history' = Append(optimization_history, HistoryEntry(c))
    /\ cycles' = [cycles EXCEPT ![c] = Idle]
    /\ ret' = [op |-> "optimize_routing", arg |-> cycles[c].explore,
               val |-> [raised |-> FALSE, params |-> cycles[c].new_param_dict]]
    /\ UNCHANGED <<current_metrics, current_state, last_action, wg_config, settings,
                   optimizerVars, bufferVars, agentVars, current_params, persistVars, trainingVars, monitorVars>>

NextRouting == \E c \in Callers : Measure(c) \/ Decide(c) \/ Apply(c) \/ Record(c)

SpecRouting == InitRouting /\ [][NextRouting]_vars

-----------------------------------------------------------------------------
(* models/reinforcement_learning.py train_on_simulated_data *)

StepsPerEpisode == 5

TargetSyncEvery == 10

\* (agent, episodes): a greedy agent that fits from its second step on, an
\* agent that explores and whose batch (the default 32) is never reached, and
\* a greedy one run for episodes that overfill its memory
TrainingInputs ==
    { <<[epsilon |-> 0, epsilon_decay |-> 995000, epsilon_min |-> 0,
         batch_size |-> 2, memory_size |-> 2], 1>>,
      <<[epsilon |-> FX, epsilon_decay |-> 995000, epsilon_min |-> 100000,
         batch_size |-> 32, memory_size |-> 7], 1>>,
      <<[epsilon |-> 0, epsilon_decay |-> 995000, epsilon_min |-> 0,
         batch_size |-> 32, memory_size |-> 7], 2>> }

\* (congestion, bandwidth) drawn from congestion_levels and bandwidths
SimulatedConditions == { <<0, 1500>>, <<500000, 500>> }

\* Mutant of Terminal: the flag is raised on a step that does not exist.
TerminalOffByOne(step) == step = StepsPerEpisode

\* done = (step == 4)
Terminal(step) == step = StepsPerEpisode - 1

\* The NetworkParameters of a step: the episode's, with the new MTU
SteppedParams(p, new_param_dict) ==
    NetworkParameters(p.b_local, p.b_ec2, p.l_propagation, new_param_dict["mtu"],
                      p.buffer_size, Min[new_param_dict["mtu"] - 20, 1400],
                      p.congestion_level)

\* train_on_simulated_data(agent, episodes) on a new agent
InitTraining ==
    /\ \E input \in TrainingInputs :
         /\ epsilon = input[1].epsilon
         /\ epsilon_decay = input[1].epsilon_decay
         /\ epsilon_min = input[1].epsilon_min
         /\ self_batch_size = input[1].batch_size
         /\ max_size = input[1].memory_size
         /\ training = [pc |-> "episode", episodes |-> input[2], episode |-> 0,
                        trains |-> 0]
    /\ buffer = <<>>
    /\ added = <<>>
    /\ model \in WeightInputs
    /\ target_model = update_target_model(model, model)
    /\ loss_history = <<>> /\ reward_history = <<>> /\ q_value_history = <<>>
    /\ fit_call = <<>>
    /\ ret = None
    /\ NoOptimizer /\ NoDriver /\ NoPersist /\ NoRouting /\ NoMonitor

\* lines 493-518: the conditions of the episode, its first metrics and state
BeginEpisode ==
    /\ training.pc = "episode"
    /\ training.episode < training.episodes
    /\ \E cond \in SimulatedConditions :
         \E p \in { NetworkParameters(cond[2], FX, 20 * FX + cond[1] * 100, 1420, 1000,
                                      1400, cond[1]) } :
            \E metrics \in { calculate_metrics(p) } :
               training' = [pc |-> "step", episodes |-> training.episodes,
                            episode |-> training.episode, trains |-> training.trains,
                            step |-> 0, params |-> p, metrics |-> metrics,
                            state |-> state_from_metrics(metrics),
                            param_dict |-> [mtu |-> p.mtu, direct_tunnel |-> TRUE,
                                            prioritize_aws |-> FALSE]]
    /\ UNCHANGED <<ret, optimizerVars, bufferVars, agentVars, current_params,
                   persistVars, routingVars, monitorVars>>

\* lines 521-551 of one step: choose_action, apply_action, calculate_metrics,
\* calculate_reward, remember
StepRemember ==
    /\ training.pc = "step"
    /\ \E a \in choose_action(training.state, TRUE, epsilon, model) :
         \E new \in { apply_action(a.action, training.param_dict) } :
           \E new_params \in { SteppedParams(training.params, new.params) } :
             \E new_metrics \in { calculate_metrics(new_params) } :
               \E reward \in { calculate_reward(new_metrics, <<training.metrics>>) } :
                 \E experience \in { << training.state, a.action, reward,
                                        state_from_metrics(new_metrics),
                                        Terminal(training.step) >> } :
                   \E r \in { add(buffer, max_size, experience) } :
                      /\ q_value_history' = q_value_history \o a.appended
                      /\ reward_history' = Append(reward_history, reward)
                      /\ buffer' = r.buffer
                      /\ added' = Append(added, experience)
                      /\ training' =
                           [pc |-> "train", episodes |-> training.episodes,
                            episode |-> training.episode, trains |-> training.trains,
                            step |-> training.step, params |-> training.params,
                            metrics |-> training.metrics, state |-> training.state,
                            param_dict |-> training.param_dict,
                            experience |-> experience, new_params |-> new_params,
                            new_metrics |-> new_metrics, new_param_dict |-> new.params]
    /\ UNCHANGED <<ret, max_size, optimizerVars, epsilon, epsilon_decay, epsilon_min,
                   self_batch_size, model, target_model, loss_history, fit_call,
                   current_params, persistVars, routingVars, monitorVars>>

\* lines 554-560 of one step: train, and the step's results become the next
\* step's start
StepTrain ==
    /\ training.pc = "train"
    /\ \E r \in train(<<>>, epsilon, epsilon_decay, epsilon_min, self_batch_size,
                      model, target_model, loss_history, buffer) :
         /\ epsilon' = r.epsilon
         /\ model' = r.model
         /\ loss_history' = r.loss_history
         /\ fit_call' = IF r.fit = <<>> THEN fit_call ELSE r.fit
    /\ training' =
         [pc |-> IF training.step + 1 < StepsPerEpisode THEN "step" ELSE "episode_end",
          episodes |-> training.episodes, episode |-> training.episode,
          trains |-> training.trains + 1, step |-> training.step + 1,
          params |-> training.new_params, metrics |-> training.new_metrics,
          state |-> training.experience[4], param_dict |-> training.new_param_dict]
    /\ UNCHANGED <<ret, epsilon_decay, epsilon_min, self_batch_size, target_model,
                   reward_history, q_value_history, bufferVars, optimizerVars,
                   current_params, persistVars, routingVars, monitorVars>>

\* lines 562-570: the target estimator follows every tenth episode
EndEpisode ==
    /\ training.pc = "episode_end"
    /\ target_model' = IF training.episode % TargetSyncEvery = 0
                       THEN update_target_model(model, target_model)
                       ELSE target_model
    /\ training' = [pc |-> "episode", episodes |-> training.episodes,
                    episode |-> training.episode + 1, trains |-> training.trains]
    /\ UNCHANGED <<ret, epsilon, epsilon_decay, epsilon_min, self_batch_size, model,
                   loss_history, reward_history, q_value_history, fit_call, bufferVars,
                   optimizerVars, current_params, persistVars, routingVars, monitorVars>>

\* lines 572-575: agent.save() and the return
FinishTraining ==
    /\ training.pc = "episode"
    /\ training.episode = training.episodes
    /\ disk' = _save_model(epsilon, self_batch_size, model, loss_history, reward_history)
    /\ training' = [pc |-> "done", episodes |-> training.episodes,
                    episode |-> training.episode, trains |-> training.trains]
    /\ ret' = [op |-> "train_on_simulated_data", arg |-> training.episodes, val |-> None]
    /\ UNCHANGED <<boots, optimizerVars, bufferVars, agentVars, current_params,
                   routingVars, monitorVars>>

NextTraining == BeginEpisode \/ StepRemember \/ StepTrain \/ EndEpisode \/ FinishTraining

SpecTraining == InitTraining /\ [][NextTraining]_vars

-----------------------------------------------------------------------------
(* scripts/monitor_tunnel.py TunnelMonitor.start_monitoring, stop_monitoring  *)
(* and _monitoring_loop.  One thread calls start and stop; every start that   *)
(* succeeds adds a thread that runs the loop.                                 *)

MaxThreads == 3

\* The other fields of the model while the monitor is checked
MonitorOnly ==
    NoOptimizer /\ NoBuffer /\ NoAgent /\ NoDriver /\ NoPersist /\ NoRouting /\ NoTraining

otherVars ==
    <<optimizerVars, bufferVars, agentVars, current_params, persistVars, routingVars,
      trainingVars>>

\* TunnelMonitor(...)
InitMonitor ==
    /\ monitoring = FALSE
    /\ monitor_thread = 0
    /\ threads = <<>>
    /\ caller = "idle"
    /\ ret = None
    /\ MonitorOnly

\* monitor.start_monitoring(interval)
StartMonitoring ==
    /\ caller = "idle"
    /\ Len(threads) < MaxThreads
    /\ IF monitoring
       THEN /\ ret' = [op |-> "start_monitoring",
                       arg |-> [running |-> TRUE, threads |-> Len(threads)],
                       val |-> FALSE]
            /\ UNCHANGED <<monitoring, monitor_thread, threads>>
       ELSE /\ monitoring' = TRUE
            /\ threads' = Append(threads, "check")
            /\ monitor_thread' = Len(threads) + 1
            /\ ret' = [op |-> "start_monitoring",
                       arg |-> [running |-> FALSE, threads |-> Len(threads)],
                       val |-> TRUE]
    /\ UNCHANGED <<caller, otherVars>>

\* monitor.stop_monitoring() as far as the join
StopMonitoring ==
    /\ caller = "idle"
    /\ IF ~monitoring
       THEN /\ ret' = [op |-> "stop_monitoring", arg |-> None, val |-> FALSE]
            /\ UNCHANGED <<monitoring, caller>>
       ELSE /\ monitoring' = FALSE
            /\ caller' = IF monitor_thread /= 0 THEN "joining" ELSE "idle"
            /\ ret' = IF monitor_thread /= 0 THEN ret
                      ELSE [op |-> "stop_monitoring", arg |-> None, val |-> TRUE]
    /\ UNCHANGED <<monitor_thread, threads, otherVars>>

\* monitor_thread.join(timeout=5) returns, the thread done or the 5 seconds
\* over while it measures or sleeps, and stop_monitoring returns True
JoinReturns ==
    /\ caller = "joining"
    /\ threads[monitor_thread] \in {"done", "cycle", "sleep"}
    /\ caller' = "idle"
    /\ ret' = [op |-> "stop_monitoring", arg |-> None, val |-> TRUE]
    /\ UNCHANGED <<monitoring, monitor_thread, threads, otherVars>>

\* _monitoring_loop: while self.monitoring
LoopCheck(t) ==
    /\ t <= Len(threads)
    /\ threads[t] = "check"
    /\ threads' = [threads EXCEPT ![t] = IF monitoring THEN "cycle" ELSE "done"]
    /\ UNCHANGED <<monitoring, monitor_thread, caller, ret, otherVars>>

\* _monitoring_loop: one cycle (measure, record, optimize, check health), its
\* exceptions logged
LoopCycle(t) ==
    /\ t <= Len(threads)
    /\ threads[t] = "cycle"
    /\ threads' = [threads EXCEPT ![t] = "sleep"]
    /\ UNCHANGED <<monitoring, monitor_thread, caller, ret, otherVars>>

\* _monitoring_loop: time.sleep(interval) is over
LoopWake(t) ==
    /\ t <= Len(threads)
    /\ threads[t] = "sleep"
    /\ threads' = [threads EXCEPT ![t] = "check"]
    /\ UNCHANGED <<monitoring, monitor_thread, caller, ret, otherVars>>

NextMonitor ==
    \/ StartMonitoring
    \/ StopMonitoring
    \/ JoinReturns
    \/ \E t \in 1..MaxThreads : LoopCheck(t) \/ LoopCycle(t) \/ LoopWake(t)

SpecMonitor == InitMonitor /\ [][NextMonitor]_vars

-----------------------------------------------------------------------------
(* apply_action under a driver that keeps the dict it returns *)

\* Parameter dicts: the one optimize_routing builds (all three keys), and
\* dicts with an MTU outside 1280..1500 or with keys missing.
ParamInputs ==
    { [mtu |-> 1420, direct_tunnel |-> TRUE, prioritize_aws |-> FALSE],
      [mtu |-> 1200, direct_tunnel |-> FALSE, prioritize_aws |-> TRUE],
      [mtu |-> 1600],
      [direct_tunnel |-> TRUE] }

\* Action indices: the four actions, and integers on either side of them
ActionIndices == -5 .. 4

InitAction ==
    /\ current_params \in ParamInputs
    /\ ret = None
    /\ NoOptimizer /\ NoBuffer /\ NoAgent /\ NoExt

\* param_dict = agent.apply_action(action_idx, param_dict)
ApplyAction ==
    /\ \E action_idx \in ActionIndices :
         \E r \in {apply_action(action_idx, current_params)} :
            /\ current_params' = IF Raised(r) THEN current_params ELSE r.params
            /\ ret' = [op |-> "apply_action", arg |-> action_idx, val |-> r]
    /\ UNCHANGED <<extVars, optimizerVars, bufferVars, agentVars>>

NextAction == ApplyAction

SpecAction == InitAction /\ [][NextAction]_vars

-----------------------------------------------------------------------------
(* Properties of the performance model *)

IsCall(r, name) == "op" \in DOMAIN r /\ r.op = name

\* uplink > 0, egress > 0, congestion in [0, 1], buffer >= 0
ValidInput(p) ==
    /\ p.b_local > 0
    /\ p.b_ec2 > 0
    /\ p.congestion_level >= 0 /\ p.congestion_level <= FX
    /\ p.buffer_size >= 0
    /\ p.packet_size > 0

\* C1: for every valid input calculate_metrics returns packet_loss in [0, 1],
\* utilization strictly below 1 and effective_throughput <= b_local.
C1_MetricsInRange ==
    (IsCall(ret, "calculate_metrics") /\ ValidInput(ret.arg))
        => /\ ~Raised(ret.val)
           /\ ret.val.packet_loss >= 0 /\ ret.val.packet_loss <= FX
           /\ ret.val.utilization < FX
           /\ ret.val.effective_throughput <= ret.arg.b_local

\* A saturated link (uplink >= egress) whose buffer is fully consumed: the
\* utilization clamp and the packet-loss cap both act.
C1_Witness ==
    /\ IsCall(ret, "calculate_metrics") /\ ValidInput(ret.arg)
    /\ ret.arg.b_local >= ret.arg.b_ec2
    /\ ~Raised(ret.val)
    /\ ret.val.utilization = 990000
    /\ ret.val.packet_loss = FX

\* C2 (as claimed): the composite score of calculate_metrics lies in [0, 1]
\* for every valid input.
C2_ScoreInUnitInterval ==
    (IsCall(ret, "calculate_metrics") /\ ValidInput(ret.arg))
        => /\ ~Raised(ret.val)
           /\ ret.val.score >= 0 /\ ret.val.score <= FX

\* C3 (as claimed): calculate_metrics never raises, also with zero uplink or
\* egress bandwidth, buffer size 0 or congestion level 1, and its fields are
\* in their valid ranges.
C3_NeverRaises ==
    (/\ IsCall(ret, "calculate_metrics")
     /\ ret.arg.b_local >= 0 /\ ret.arg.b_ec2 >= 0 /\ ret.arg.buffer_size >= 0
     /\ ret.arg.congestion_level >= 0 /\ ret.arg.congestion_level <= FX
     /\ ret.arg.packet_size > 0)
        => /\ ~Raised(ret.val)
           /\ ret.val.packet_loss >= 0 /\ ret.val.packet_loss <= FX
           /\ ret.val.effective_throughput >= 0
           /\ ret.val.effective_throughput <= ret.arg.b_local
           /\ ret.val.total_latency >= ret.arg.l_propagation

\* The configuration (MTU, buffer size, packet size = min(MTU - 20, 1400)) is a
\* point of the search grid.
InGrid(p) ==
    /\ \E k \in 0..(GridSize - 1) : p.mtu = GridMtu(k) /\ p.buffer_size = GridBuffer(k)
    /\ p.packet_size = Min[p.mtu - 20, 1400]

\* C4: when the current configuration is a grid point, the metrics that
\* optimize_parameters returns never score strictly lower than
\* calculate_metrics scores the current configuration.
C4_SearchNotWorse ==
    (IsCall(ret, "optimize_parameters") /\ InGrid(ret.arg) /\ ~Raised(ret.val))
        => \A current \in {calculate_metrics(ret.arg)} :
              ~Raised(current) /\ ret.val.best_metrics.score >= current.score

\* The search moved away from an in-grid current configuration to one that
\* scores strictly higher.
C4_Witness ==
    /\ IsCall(ret, "optimize_parameters") /\ InGrid(ret.arg) /\ ~Raised(ret.val)
    /\ ret.val.best_params /= ret.arg
    /\ ret.val.best_metrics.score > calculate_metrics(ret.arg).score

\* The entries one call of optimize_parameters appended to evaluated_configs
LastSearch == SubSeq(evaluated_configs, Len(evaluated_configs) - GridSize + 1,
                     Len(evaluated_configs))

\* C5 (as claimed): optimize_parameters evaluates the whole grid, MTU outer and
\* buffer inner, and returns the grid point of maximum score, the first
\* encountered among equals, for every link condition.
C5_ReturnsGridMaximum ==
    (IsCall(ret, "optimize_parameters") /\ ValidInput(ret.arg))
        => /\ ~Raised(ret.val)
           /\ Len(evaluated_configs) >= GridSize
           /\ \A k \in 0..(GridSize - 1) :
                 LastSearch[k + 1].params = TestParams(ret.arg, GridMtu(k), GridBuffer(k))
           /\ \E k \in 1..GridSize :
                 /\ ret.val.best_params = LastSearch[k].params
                 /\ ret.val.best_metrics = LastSearch[k].metrics
                 /\ \A j \in 1..GridSize :
                       LastSearch[j].metrics.score <= LastSearch[k].metrics.score
                 /\ \A j \in 1..(k - 1) :
                       LastSearch[j].metrics.score < LastSearch[k].metrics.score
-----------------------------------------------------------------------------
(* Properties of the experience buffer *)

\* The last n entries of a sequence (all of it if it is shorter)
LastN(seq, n) == SubSeq(seq, Max[1, Len(seq) - n + 1], Len(seq))

\* C6: FIFO eviction with capacity K >= 1: size() never exceeds K, and after
\* K + m adds (m > 0) size() = K, the m oldest transitions are gone and the
\* buffer holds exactly the K most recent ones in insertion order.
C6_FifoEviction ==
    max_size >= 1
        => /\ size(buffer) <= max_size
           /\ buffer = LastN(added, max_size)
           /\ Len(added) > max_size => size(buffer) = max_size
           /\ IsCall(ret, "add") => ~Raised(ret.val)
           /\ IsCall(ret, "size") => ret.val = Min[Len(added), max_size]

\* Two more adds than a capacity of at least 2: the two oldest entries, which
\* differ from the ones that follow them, are gone.
C6_Witness ==
    /\ max_size >= 2
    /\ Len(added) = max_size + 2
    /\ size(buffer) = max_size
    /\ added[1] /= added[3] /\ added[2] /= added[max_size + 2]
    /\ buffer[1] = added[3]

\* C7 (as claimed): sample(n) returns exactly min(n, size()) transitions, each
\* a distinct stored entry, for every n >= 0 and every buffer size (the empty
\* buffer too), and leaves the buffer unchanged.
C7_SampleReturnsMin ==
    [][(IsCall(ret', "sample") /\ ret'.arg >= 0)
         => /\ ~Raised(ret'.val)
            /\ buffer' = buffer
            /\ Len(ret'.val.states) = Min[ret'.arg, size(buffer)]
            /\ \E pick \in [1..Len(ret'.val.states) -> 1..Len(buffer)] :
                  /\ \A i, j \in DOMAIN pick : i /= j => pick[i] /= pick[j]
                  /\ \A i \in DOMAIN pick :
                        buffer[pick[i]] = <<ret'.val.states[i], ret'.val.actions[i],
                                            ret'.val.rewards[i], ret'.val.next_states[i],
                                            ret'.val.dones[i]>>]_vars

-----------------------------------------------------------------------------
(* Properties of calculate_reward *)

\* m is strictly better than p on all three axes
BetterOnAllAxes(m, p) ==
    /\ m.effective_throughput > p.effective_throughput
    /\ m.total_latency < p.total_latency
    /\ m.packet_loss < p.packet_loss

\* some axis of m is better than p's by at least 1 % of p's value
BetterByOnePercent(m, p) ==
    \/ p.effective_throughput > 0
         /\ m.effective_throughput - p.effective_throughput
              >= (p.effective_throughput + 99) \div 100
    \/ p.total_latency - m.total_latency >= (p.total_latency + 99) \div 100
    \/ p.packet_loss - m.packet_loss >= (p.packet_loss + 99) \div 100

FlatTerms(metrics, prev_metrics, reward) ==
    reward
      - BaseReward(ThroughputMbps(metrics), metrics.total_latency, PacketLossPercent(metrics))
      - (IF prev_metrics /= <<>>
           THEN ImprovementReward(ThroughputMbps(metrics), metrics.total_latency,
                                  PacketLossPercent(metrics), prev_metrics[1])
           ELSE 0)

\* The bonus condition of the claim: throughput above the 1.5 Mbps baseline,
\* latency below 70 ms, loss below 2 %
ClaimedBonus(metrics) ==
    /\ ThroughputMbps(metrics) > 1500000
    /\ metrics.total_latency < 70 * FX
    /\ PacketLossPercent(metrics) < 2 * FX

\* The penalty condition of the claim: throughput below 0.1 of the baseline,
\* or latency above 200 ms, or loss above 15 %
ClaimedPenalty(metrics) ==
    \/ ThroughputMbps(metrics) < 150000
    \/ metrics.total_latency > 200 * FX
    \/ PacketLossPercent(metrics) > 15 * FX

\* C14 (as claimed): the flat bonus +1.0 is added exactly when throughput >
\* 1.5 Mbps, latency < 70 ms and loss < 2 %, the flat penalty 2.0 subtracted
\* exactly when throughput < 0.15 Mbps or latency > 200 ms or loss > 15 %,
\* and never both.
C14_FlatBonusAndPenalty ==
    IsCall(ret, "calculate_reward")
        => /\ FlatTerms(ret.arg[1], ret.arg[2], ret.val.reward)
                = (IF ClaimedBonus(ret.arg[1]) THEN FX ELSE 0)
                    - (IF ClaimedPenalty(ret.arg[1]) THEN 2 * FX ELSE 0)
           /\ ~(ClaimedBonus(ret.arg[1]) /\ ClaimedPenalty(ret.arg[1]))

\* The bounds that capped base terms, improvement terms clamped to 100 % either
\* way, and the flat terms would give: -5.9 and 4.5
RewardLowerBound == -(3 * w2 + 10 * w3 + (w1 + w2 + w3) + 2 * FX)

RewardUpperBound == 5 * w1 + (w1 + w2 + w3) + FX

\* C15 (as claimed): every reward lies between two fixed constants.
C15_RewardBounded ==
    IsCall(ret, "calculate_reward")
        => (RewardLowerBound <= ret.val.reward /\ ret.val.reward <= RewardUpperBound)

-----------------------------------------------------------------------------
(* Properties of the routing agent *)

\* C8: a train call made while the store holds fewer transitions than the
\* batch size returns a loss of 0 and leaves the exploration rate, the loss
\* history, the experience store and both estimators as they were.
C8_TrainSkipIsNoOp ==
    [][ (IsCall(ret', "train") /\ size(buffer) < TrainBatch(ret'.arg, self_batch_size))
          => /\ ret'.val = [raised |-> FALSE, loss |-> 0]
             /\ UNCHANGED <<epsilon, loss_history, buffer, model, target_model>> ]_vars

\* A skipped train call on a store that is not empty, by an agent that has
\* trained before (so there is a history and a decayed rate to preserve).
C8_Witness ==
    /\ IsCall(ret, "train")
    /\ ret.val = [raised |-> FALSE, loss |-> 0]
    /\ 0 < size(buffer)
    /\ size(buffer) < TrainBatch(ret.arg, self_batch_size)
    /\ loss_history /= <<>>
    /\ epsilon = 995000

\* C9: no step raises the exploration rate; a train call that fits a batch
\* multiplies it by epsilon_decay while it is above epsilon_min, and once it
\* is at or below epsilon_min every train call leaves it as it is.  (The
\* decay rates of the model are in (0, 1].)
C9_EpsilonDecaysToFloor ==
    [][ /\ epsilon' <= epsilon
        /\ (IsCall(ret', "train") /\ loss_history' /= loss_history /\ epsilon > epsilon_min)
             => epsilon' = Mul[epsilon, epsilon_decay]
        /\ (IsCall(ret', "train") /\ epsilon <= epsilon_min)
             => epsilon' = epsilon ]_vars

\* Two fitted batches from 0.25 with decay 0.5 and floor 0.2: the first took
\* the rate to 0.125, the second left it there.
C9_Witness ==
    /\ IsCall(ret, "train")
    /\ ~Raised(ret.val)
    /\ Len(loss_history) = 2
    /\ epsilon_decay = 500000
    /\ epsilon_min = 200000
    /\ epsilon = 125000

\* C10: on a dict with an MTU, action 0 returns mtu = min(mtu + 40, 1500) and
\* action 1 returns mtu = max(mtu - 40, 1280); so 1420 goes to 1460, and 1500
\* (1280) is kept by a further increase (decrease).
C10_MtuStepClamped ==
    [][ (IsCall(ret', "apply_action") /\ "mtu" \in DOMAIN current_params)
          => /\ ret'.arg = 0 =>
                  /\ ~Raised(ret'.val)
                  /\ ret'.val.params["mtu"] = Min[current_params["mtu"] + 40, 1500]
                  /\ current_params["mtu"] = 1420 => ret'.val.params["mtu"] = 1460
                  /\ current_params["mtu"] = 1500 => ret'.val.params["mtu"] = 1500
             /\ ret'.arg = 1 =>
                  /\ ~Raised(ret'.val)
                  /\ ret'.val.params["mtu"] = Max[current_params["mtu"] - 40, 1280]
                  /\ current_params["mtu"] = 1280 => ret'.val.params["mtu"] = 1280 ]_vars

\* An increase has returned the upper bound 1500.
C10_Witness ==
    /\ IsCall(ret, "apply_action")
    /\ ret.arg = 0
    /\ ~Raised(ret.val)
    /\ ret.val.params["mtu"] = 1500
    /\ current_params["mtu"] = 1500

\* C11 (as claimed): for every parameter dict and every action index 0..3 the
\* dict apply_action returns has an MTU within 1280..1500.
C11_MtuInRange ==
    (IsCall(ret, "apply_action") /\ ret.arg \in 0..3 /\ ~Raised(ret.val)
       /\ "mtu" \in DOMAIN ret.val.params)
        => (1280 <= ret.val.params["mtu"] /\ ret.val.params["mtu"] <= 1500)

\* C12 (as claimed): an action index outside 0..3, larger or negative, raises
\* and returns no parameter dict.
C12_UnknownIndexRaises ==
    (IsCall(ret, "apply_action") /\ ret.arg \notin 0..3) => Raised(ret.val)

\* The window the histories are claimed to keep.  The code keeps none, so the
\* claim fails for every window shorter than the calls a run makes; the model
\* takes one that its bounds on the calls reach.
HistoryWindow == 2

\* C16 (as claimed): reward_history, loss_history and q_value_history each
\* hold at most a fixed recent window of entries, however many calls are made.
C16_HistoriesBounded ==
    /\ Len(reward_history) <= HistoryWindow
    /\ Len(loss_history) <= HistoryWindow
    /\ Len(q_value_history) <= HistoryWindow

\* C17: choose_action with explore=False takes the exploiting branch whatever
\* the exploration rate; the exploiting branch returns the index of the
\* greatest value the online estimator predicts for the normalised state and
\* appends exactly that value to q_value_history; the random branch is taken
\* only with explore=True, returns an index in 0..3 and appends nothing.
C17_ChooseAction ==
    [][ IsCall(ret', "choose_action")
          => \A q \in { predict(model, normalize_state(ret'.arg.state)) } :
                 /\ ~ret'.arg.explore => ret'.val.branch = "exploit"
                 /\ ret'.val.branch = "exploit"
                      => /\ ret'.val.action \in 0..3
                         /\ \A a \in 1..ACTION_DIM : q[a] <= q[ret'.val.action + 1]
                         /\ q_value_history'
                              = Append(q_value_history, q[ret'.val.action + 1])
                 /\ ret'.val.branch = "explore"
                      => /\ ret'.arg.explore
                         /\ ret'.val.action \in 0..3
                         /\ q_value_history' = q_value_history ]_vars

\* choose_action(state, explore=False) by an agent whose exploration rate is
\* 1.0 has returned an action other than the first and recorded its value.
C17_Witness ==
    /\ IsCall(ret, "choose_action")
    /\ ~ret.arg.explore
    /\ epsilon = FX
    /\ ret.val.action > 0
    /\ q_value_history /= <<>>
    /\ q_value_history[Len(q_value_history)]
         = predict(model, normalize_state(ret.arg.state))[ret.val.action + 1]

\* C18: a train step that fits a batch samples exactly batch_size
\* transitions, and the target row of transition i is the online estimator's
\* prediction except in the entry of the action taken, which is the reward
\* when the transition is terminal and otherwise the reward plus gamma times
\* the greatest value the target estimator predicts for the next state.
C18_TrainingTargets ==
    [][ (IsCall(ret', "train") /\ loss_history' /= loss_history)
          => /\ Len(fit_call'.batch.states) = TrainBatch(ret'.arg, self_batch_size)
             /\ Len(fit_call'.targets) = Len(fit_call'.batch.states)
             /\ \A i \in 1..Len(fit_call'.targets) :
                  \A q \in { predict(model, normalize_state(fit_call'.batch.states[i])) },
                     nq \in { predict(target_model,
                                      normalize_state(fit_call'.batch.next_states[i])) } :
                    \A a \in 1..ACTION_DIM :
                      fit_call'.targets[i][a] =
                        IF a /= fit_call'.batch.actions[i] + 1 THEN q[a]
                        ELSE IF fit_call'.batch.dones[i] THEN fit_call'.batch.rewards[i]
                        ELSE fit_call'.batch.rewards[i] + Mul[gamma, np_max(nq)] ]_vars

\* A second fitted batch, after the first fit moved the online estimator away
\* from the target estimator, on a transition that is not terminal.
C18_Witness ==
    /\ IsCall(ret, "train")
    /\ ~Raised(ret.val)
    /\ Len(loss_history) = 2
    /\ fit_call /= <<>>
    /\ ~fit_call.batch.dones[1]
    /\ fit_call.targets[1] /= fit_call.current_q[1]

\* C19: only update_target_model changes the target estimator, and right
\* after it the target estimator equals the online one; train, choose_action,
\* remember and calculate_reward leave it as it is.
C19_TargetChangesOnlyBySync ==
    [][ /\ target_model' /= target_model => IsCall(ret', "update_target_model")
        /\ IsCall(ret', "update_target_model")
             => (target_model' = model' /\ model' = model)
        /\ (IsCall(ret', "train") \/ IsCall(ret', "choose_action")
              \/ IsCall(ret', "remember") \/ IsCall(ret', "calculate_reward"))
             => target_model' = target_model ]_vars

\* update_target_model has run after a fit: the estimators agree again.
C19_Witness ==
    /\ IsCall(ret, "update_target_model")
    /\ loss_history /= <<>>
    /\ fit_call /= <<>>
    /\ target_model = model
    /\ fit_call.current_q /= CurrentQ(fit_call.batch, model)

\* C20 (as claimed): an agent built on a loaded model starts with an
\* exploration rate strictly above epsilon_min and strictly below the
\* configured epsilon, whenever epsilon_min < epsilon.
C20_LoadedEpsilonBetween ==
    (IsCall(ret, "__init__") /\ ret.arg.loaded
       /\ ret.arg.config.epsilon_min < ret.arg.config.epsilon)
        => (epsilon_min < epsilon /\ epsilon < ret.arg.config.epsilon)

-----------------------------------------------------------------------------
(* Properties of saving and constructing again *)

\* The agent just constructed found a loadable saved model in model_dir
RestoredFromSave == IsCall(ret, "__init__") /\ disk.exists /\ disk.model_file.ok

\* C21 (as claimed): save followed by construction is a round trip for the
\* metadata: an agent constructed on a directory written by save() has the
\* exploration rate, discount factor, learning rate and recent loss and reward
\* windows that were saved.
C21_MetadataRoundTrip ==
    RestoredFromSave =>
        /\ epsilon = disk.metadata.epsilon
        /\ gamma = disk.metadata.gamma
        /\ learning_rate = disk.metadata.learning_rate
        /\ loss_history = disk.metadata.loss_history
        /\ reward_history = disk.metadata.reward_history

\* C22: when the saved model exists but cannot be loaded, construction does
\* not fail: the agent has a newly built online estimator and a target
\* estimator equal to it, and the error is only logged.
C22_MalformedFallsBack ==
    (IsCall(ret, "__init__") /\ disk = Malformed) =>
        /\ ret.val = None
        /\ ret.built
        /\ ret.log = <<"Error loading model">>
        /\ model \in _build_model
        /\ target_model = model

\* An agent constructed after the model another agent saved was damaged
C22_Witness ==
    /\ IsCall(ret, "__init__")
    /\ disk = Malformed
    /\ boots = MaxBoots
    /\ ret.val = None
    /\ ret.built

-----------------------------------------------------------------------------
(* Properties of the optimization cycle *)

\* C23 (as claimed): every optimize_routing cycle records a transition
\* (state, action, reward, next_state, terminal) in the agent's experience
\* store, also when the manager's update_config reported a failure: the store
\* has been given one transition for each cycle recorded in the history.
C23_CycleRecordsTransition ==
    /\ Len(added) >= Len(optimization_history)
    /\ IsCall(ret, "optimize_routing") => buffer /= <<>>

\* The metrics part of a history entry, for the metrics a cycle measured
MetricsRecorded(m) ==
    [throughput_mbps |-> ThroughputMbps(m), latency_ms |-> m.total_latency,
     packet_loss_percent |-> PacketLossPercent(m)]

\* C27 (as claimed): when optimize_routing cycles on one RoutingOptimizer
\* interleave, every history entry pairs the action its cycle chose with the
\* state and the metrics that same cycle measured.
C27_EntryOwnsItsCycle ==
    \A i \in 1..Len(optimization_history) :
        /\ optimization_history[i].state
             = state_from_metrics(optimization_history[i].measured)
        /\ optimization_history[i].metrics
             = MetricsRecorded(optimization_history[i].measured)

\* C29 (as claimed): whenever update_config returns success for the
\* {mtu, direct_tunnel} update of a cycle, the manager's settings afterwards
\* hold that MTU and that routing mode.
C29_SuccessMeansApplied ==
    [][\A c \in Callers :
         (cycles[c].pc = "applying" /\ cycles'[c].pc = "recording"
            /\ cycles'[c].result /= None /\ cycles'[c].result.success)
           => /\ "mtu" \in DOMAIN settings'
              /\ settings'["mtu"] = cycles[c].new_param_dict["mtu"]
              /\ settings'["direct_tunnel"] = cycles[c].new_param_dict["direct_tunnel"]]_vars

-----------------------------------------------------------------------------
(* Properties of recommend_isp_upgrade *)

\* The metrics of the optimizer's parameters with the uplink replaced
UpgradedMetrics(bandwidth) == calculate_metrics([params EXCEPT !.b_local = bandwidth])

\* C24 (as claimed): recommend_isp_upgrade returns a result for every
\* current-metrics input, zero throughput included; the result lists the three
\* catalog bandwidths 0.05, 0.1 and 0.15 Gbps, each evaluated by
\* calculate_metrics with the other parameters unchanged, ordered by score
\* non-increasing; should_upgrade is set exactly when some candidate's
\* effective throughput is more than 5 times the current one.
C24_RecommendUpgrade ==
    IsCall(ret, "recommend_isp_upgrade") =>
      \A r \in {ret.val} :
        /\ ~r.raised
        /\ Len(r.all_options) = 3
        /\ { r.all_options[k].bandwidth_gbps : k \in 1..3 } = {50000, 100000, 150000}
        /\ \A k \in 1..3 :
             \A m \in { UpgradedMetrics(r.all_options[k].bandwidth_gbps) } :
                /\ r.all_options[k].score = m.score
                /\ r.all_options[k].latency_ms = m.total_latency
                /\ r.all_options[k].effective_throughput_mbps = m.effective_throughput * 1000
        /\ \A k \in 1..2 : r.all_options[k].score >= r.all_options[k + 1].score
        /\ r.should_upgrade <=>
             \E k \in 1..3 :
                r.all_options[k].effective_throughput_mbps
                  > 5 * ret.arg.effective_throughput * 1000

-----------------------------------------------------------------------------
(* The example scenario of the performance model *)

\* uplink 0.0015 Gbps, egress 1.0 Gbps, propagation 20 ms, MTU 1420, buffer
\* 1000, packet size 1400, no congestion
ExampleScenario == NetworkParameters(1500, FX, 20 * FX, 1420, 1000, 1400, 0)

\* utilization = arrival/service = 0.0015, packet loss within 0.001 of 0,
\* effective throughput within 1 % of 0.0015 Gbps
ExampleOtherMetrics(m) ==
    /\ ~Raised(m)
    /\ m.utilization = 1500
    /\ m.packet_loss >= 0 /\ m.packet_loss <= FX \div 1000
    /\ Abs[m.effective_throughput - 1500] <= 15

\* C25 (as claimed): for the example scenario calculate_metrics yields
\* utilization 0.0015, a total latency between 21 and 25 ms, packet loss near 0
\* and an effective throughput of about 0.0015 Gbps.
C25_ExampleAsClaimed ==
    (IsCall(ret, "calculate_metrics") /\ ret.arg = ExampleScenario)
        => /\ ExampleOtherMetrics(ret.val)
           /\ ret.val.total_latency >= 21 * FX /\ ret.val.total_latency <= 25 * FX

\* C25 (amended): for the example scenario calculate_metrics yields
\* utilization 0.0015, a total latency between 28 and 29 ms, packet loss near 0
\* and an effective throughput of about 0.0015 Gbps.
C25_Example ==
    (IsCall(ret, "calculate_metrics") /\ ret.arg = ExampleScenario)
        => /\ ExampleOtherMetrics(ret.val)
           /\ ret.val.total_latency >= 28 * FX /\ ret.val.total_latency <= 29 * FX

\* calculate_metrics has been called on the example scenario: 20 ms of
\* propagation, 1 ms of processing and 7.57 ms to put 1420 bytes on the uplink
C25_Witness ==
    /\ IsCall(ret, "calculate_metrics") /\ ret.arg = ExampleScenario
    /\ ~Raised(ret.val)
    /\ ret.val.total_latency = 28573350
    /\ ret.val.packet_loss = 0

\* C26 (as claimed): the exploration rate of an agent that started at or above
\* its floor is at or above the floor after every train call.
C26_EpsilonNeverBelowFloor ==
    (IsCall(ret, "train") /\ ~Raised(ret.val)) => epsilon >= epsilon_min

-----------------------------------------------------------------------------
(* Properties of train_on_simulated_data *)

\* The transitions remembered when the call is at its present position
TransitionsDue ==
    StepsPerEpisode * training.episode
      + (IF training.pc \in {"step", "train"} THEN training.step ELSE 0)
      + (IF training.pc = "train" THEN 1 ELSE 0)
      + (IF training.pc = "episode_end" THEN StepsPerEpisode ELSE 0)

\* C28: in train_on_simulated_data every episode is a strict sequence of
\* exactly 5 steps: the transition of a step is stored before train runs for
\* that step, the next_state of a step is the state of the following step,
\* exactly the 5th transition of each episode is flagged terminal, and after E
\* episodes the store of an agent that started empty holds min(5E, capacity)
\* transitions.
C28_StrictEpisodes ==
    /\ training.pc \in {"step", "train"} => training.step \in 0..(StepsPerEpisode - 1)
    /\ Len(added) = TransitionsDue
    /\ training.trains = Len(added) - (IF training.pc = "train" THEN 1 ELSE 0)
    /\ training.pc = "train" =>
          /\ buffer /= <<>> /\ buffer[Len(buffer)] = training.experience
          /\ added[Len(added)] = training.experience
          /\ training.experience[1] = training.state
    /\ \A i \in 1..(Len(added) - 1) :
          i % StepsPerEpisode /= 0 => added[i][4] = added[i + 1][1]
    /\ \A i \in 1..Len(added) : added[i][5] <=> (i % StepsPerEpisode = 0)
    /\ training.pc \in {"episode", "done"} =>
          Len(buffer) = Min[StepsPerEpisode * training.episode, max_size]

\* Two episodes have run on an agent whose memory holds 7 transitions: ten were
\* stored, the memory is full, and the call has saved the agent and returned
C28_Witness ==
    /\ training.pc = "done"
    /\ training.episode = 2
    /\ Len(added) = 2 * StepsPerEpisode
    /\ Len(buffer) = max_size
    /\ disk.exists

-----------------------------------------------------------------------------
(* Properties of the tunnel monitor *)

\* The loops that are in a cycle or will start another one as things stand
RunningLoops ==
    { t \in 1..Len(threads) :
        threads[t] = "cycle" \/ (monitoring /\ threads[t] \in {"check", "sleep"}) }

\* C30 (as claimed): whatever the order of start_monitoring and
\* stop_monitoring calls, at most one monitoring loop is running cycles:
\* start_monitoring while running returns False and starts nothing, and a
\* start after stop_monitoring has returned does not leave the earlier loop
\* running beside the new one.
C30_OneMonitoringLoop ==
    /\ Cardinality(RunningLoops) <= 1
    /\ (IsCall(ret, "start_monitoring") /\ ret.arg.running)
          => (ret.val = FALSE /\ Len(threads) = ret.arg.threads)

====
